---------------------------- MODULE Spec2Model ----------------------------
(***************************************************************************)
(* A model of plauncher, a launcher wrapper for games: flag parsing,       *)
(* override merging, command assembly, launch ordering, compat-data        *)
(* migration and the tail-line reader.                                     *)
(*                                                                         *)
(* Go strings are TLA+ strings; Go maps are functions whose DOMAIN is the  *)
(* set of keys present; Go slices are sequences.  Go's 0-based indices are *)
(* kept where the code returns them (os.Args[i] is osArgs[i + 1]).         *)
(***************************************************************************)
EXTENDS Integers, Sequences, FiniteSets, TLC

VARIABLES
    pc,                    \* position of the modelled run
    userConfiguration,     \* main: userConfiguration (a Configuration)
    osArgs,                \* os.Args
    argIdx,                \* enrichConfigurationWithArgvFlags: loop index i
    indexFirstNonFlagArg,  \* main: first result of enrichConfigurationWithArgvFlags
    enrichErr,             \* main: second result (TRUE when an error is returned)
    nameOverrideFile,      \* the YAML document at gameOverrideByNameFile, or NoFile
    idOverrideFile,        \* the YAML document at gameOverrideByIdFile, or NoFile
    baseConfiguration,     \* history: userConfiguration before the override layers
    afterNameOverride,     \* history: userConfiguration after the by-name layer
    command,               \* main: command
    binaries,              \* the names `which` finds on the host
    steamCompatSession,    \* STEAM_COMPAT_DATA_PATH is in the process environment
    nonFlagArgs,           \* main: nonFlagArgs
    protonStat,            \* what os.Stat(Umu.Proton) finds: "dir", "file", "absent"
    createdDirs,           \* the directories os.MkdirAll has been called on
    configBeforeAssembly,  \* history: userConfiguration before the assembly
    events,                \* history: the processes started and ended, in order
    scriptIdx,             \* executeScripts: the index of the next script
    exitStatus,            \* the launcher's exit status, -1 while it runs
    fs,                    \* the filesystem: the node at each existing path
    fsBefore,              \* history: the filesystem before the migration
    umask,                 \* the permission bits the process's umask clears
    privileged,            \* the process runs as root
    tailFile,              \* the file ReadLastLine is called on (doc: its bytes)
    tailResult,            \* the line and the error ReadLastLine returned
    sidecarFiles,          \* the steam_appid.txt files, by path (doc: bytes)
    configBeforeDetection, \* userConfiguration when the identifier detection starts
    cacheFiles,            \* the files of the app-names cache folder, by path
    lookups                \* the findSteamGameName calls so far, each with its outcome

varsArgv == <<osArgs, argIdx, indexFirstNonFlagArg, enrichErr>>
varsMerge == <<nameOverrideFile, idOverrideFile, baseConfiguration, afterNameOverride>>

varsCommand == <<command, binaries, steamCompatSession, nonFlagArgs, protonStat,
                 createdDirs, configBeforeAssembly>>

varsLaunch == <<events, scriptIdx, exitStatus>>

varsMigrate == <<fs, fsBefore, umask, privileged>>

varsTail == <<tailFile, tailResult>>

varsDetect == <<sidecarFiles, configBeforeDetection>>

varsNames == <<cacheFiles, lookups>>

vars == <<pc, userConfiguration, varsArgv, varsMerge, varsCommand, varsLaunch,
          varsMigrate, varsTail,
          varsDetect,
          varsNames>>

\* What the actions of each part leave alone
notArgv == <<varsMerge, varsCommand, varsLaunch, varsMigrate, varsTail, varsDetect, varsNames>>
notMerge == <<varsArgv, varsCommand, varsLaunch, varsMigrate, varsTail, varsDetect, varsNames>>
notCommand == <<varsArgv, varsMerge, varsLaunch, varsMigrate, varsTail, varsDetect, varsNames>>
notLaunch == <<varsArgv, varsMerge, varsCommand, varsMigrate, varsTail, varsDetect, varsNames>>
notMigrate == <<varsArgv, varsMerge, varsCommand, varsLaunch, varsTail, varsDetect, varsNames>>
notTail == <<varsArgv, varsMerge, varsCommand, varsLaunch, varsMigrate, varsDetect, varsNames>>
notDetect == <<varsArgv, varsMerge, varsCommand, varsLaunch, varsMigrate, varsTail, varsNames>>
notNames == <<varsArgv, varsMerge, varsCommand, varsLaunch, varsMigrate, varsTail, varsDetect>>

---------------------------------------------------------------------------
(* Bounds of the model. *)

MaxArgs == 2       \* arguments after the program name, drawn from ArgSamples
MaxParamLen == 3   \* length of the text after "--" in the generated long flags
MaxListLen == 2    \* length of the list fields of the merged configurations
MaxScripts == 2    \* length of the pre-script and post-script lists of a launch
MaxFileLen == 4    \* bytes of the files the tail-line reader is given
MaxWords == 3      \* words of the command line the identifier detection reads
MaxLookups == 3    \* launches that look a game name up

---------------------------------------------------------------------------
(* Strings and maps. *)

\* strings.HasPrefix
HasPrefix(s, prefix) ==
    /\ Len(s) >= Len(prefix)
    /\ SubSeq(s, 1, Len(prefix)) = prefix

\* The 1-based position of the first occurrence of the one-character string
\* sep in s, 0 when there is none (strings.Index + 1).
RECURSIVE IndexFrom(_, _, _)
IndexFrom(s, sep, i) ==
    IF i > Len(s) THEN 0
    ELSE IF SubSeq(s, i, i) = sep THEN i
    ELSE IndexFrom(s, sep, i + 1)

\* strings.Contains for a one-character separator
Contains(s, sep) == IndexFrom(s, sep, 1) # 0

\* strings.Split for a one-character separator: every piece between
\* separators, empty pieces included.
RECURSIVE Split(_, _)
Split(s, sep) ==
    LET at == IndexFrom(s, sep, 1) IN
    IF at = 0 THEN <<s>>
    ELSE <<SubSeq(s, 1, at - 1)>> \o Split(SubSeq(s, at + 1, Len(s)), sep)

\* slices.Contains
SliceContains(list, x) == \E k \in 1..Len(list) : list[k] = x

\* make(map[...]...)
EmptyMap == << >>

\* m[k] = v on a Go map
MapSet(m, k, v) == (k :> v) @@ m

\* _, exists := m[k]
MapHas(m, k) == k \in DOMAIN m

\* m[k] on a Go map of strings: the zero value when the key is absent
MapGet(m, k) == IF k \in DOMAIN m THEN m[k] ELSE ""

\* All strings of length at most n over the characters cs.
RECURSIVE Strs(_, _)
Strs(cs, n) ==
    IF n = 0 THEN {""}
    ELSE LET shorter == Strs(cs, n - 1) IN
         shorter \cup {s \o c : s \in shorter, c \in cs}

\* All sequences of length at most n over the set S.
RECURSIVE SeqsUpTo(_, _)
SeqsUpTo(S, n) ==
    IF n = 0 THEN {<< >>}
    ELSE LET shorter == SeqsUpTo(S, n - 1) IN
         shorter \cup {Append(q, x) : q \in shorter, x \in S}

---------------------------------------------------------------------------
(* Configuration. *)

\* The program name, os.Args[0]
ProgramName == "plauncher"

\* main: defaultConfiguration
defaultConfiguration ==
    [ Environment  |-> EmptyMap,
      Wine         |-> [Alsa |-> TRUE],
      Mangohud     |-> [Enabled |-> FALSE],
      Gamemode     |-> [Enabled |-> TRUE],
      Gamescope    |-> [Enabled |-> FALSE, Hdr |-> FALSE, Args |-> << >>],
      EosOverlay   |-> [Enabled |-> FALSE],
      Umu          |-> [Enabled |-> FALSE, Proton |-> "", GameId |-> "",
                        Store |-> "", Args |-> << >>],
      PreScripts   |-> << >>,
      PostScripts  |-> << >>,
      specialFlags |-> EmptyMap,
      props        |-> EmptyMap ]

\* No file at the path (os.Stat reports IsNotExist)
NoFile == [exists |-> FALSE, doc |-> << >>]

\* The parts of the state a specification does not use stay at these values
IdleArgv ==
    /\ osArgs = <<ProgramName>>
    /\ argIdx = 0
    /\ indexFirstNonFlagArg = -1
    /\ enrichErr = FALSE

IdleMerge ==
    /\ nameOverrideFile = NoFile
    /\ idOverrideFile = NoFile
    /\ baseConfiguration = defaultConfiguration
    /\ afterNameOverride = defaultConfiguration

IdleCommand ==
    /\ command = << >>
    /\ binaries = {}
    /\ steamCompatSession = FALSE
    /\ nonFlagArgs = << >>
    /\ protonStat = "absent"
    /\ createdDirs = {}
    /\ configBeforeAssembly = defaultConfiguration

IdleLaunch ==
    /\ events = << >>
    /\ scriptIdx = 0
    /\ exitStatus = -1

IdleMigrate ==
    /\ fs = << >>
    /\ fsBefore = << >>
    /\ umask = {}
    /\ privileged = FALSE

IdleTail ==
    /\ tailFile = NoFile
    /\ tailResult = [line |-> "", err |-> FALSE]

IdleDetect ==
    /\ sidecarFiles = << >>
    /\ configBeforeDetection = defaultConfiguration

IdleNames ==
    /\ cacheFiles = << >>
    /\ lookups = << >>

---------------------------------------------------------------------------
(* Flag parsing. *)

\* parseDoubleDashParam(configuration, arg)
parseDoubleDashParam(configuration, arg) ==
    IF Contains(arg, "=")
    THEN LET split_arg == Split(arg, "=") IN
         [configuration EXCEPT
            !.props = MapSet(configuration.props, split_arg[1], split_arg[2])]
    ELSE [configuration EXCEPT
            !.specialFlags = MapSet(configuration.specialFlags, arg, TRUE)]

\* parseBooleanDashParam: the switch on one character
booleanDashChar(configuration, char, value) ==
    CASE char = "G" -> [configuration EXCEPT !.Gamescope.Enabled = value]
      [] char = "g" -> [configuration EXCEPT !.Gamemode.Enabled = value]
      [] char = "h" -> [configuration EXCEPT !.Gamescope.Hdr = value]
      [] char = "m" -> [configuration EXCEPT !.Mangohud.Enabled = value]
      [] char = "e" -> [configuration EXCEPT !.EosOverlay.Enabled = value]
      [] OTHER -> configuration

\* parseBooleanDashParam(configuration, arg, value): the loop over the
\* characters of arg
RECURSIVE parseBooleanDashParam(_, _, _)
parseBooleanDashParam(configuration, arg, value) ==
    IF arg = "" THEN configuration
    ELSE parseBooleanDashParam(
             booleanDashChar(configuration, Head(arg), value), Tail(arg), value)

\* IsCommandStart with the test for a single leading dash left out
IsCommandStart_NoSingleDash(arg) ==
    /\ ~HasPrefix(arg, "--")
    /\ ~HasPrefix(arg, "-!")

\* enrichConfigurationWithArgvFlags: the loop body reaches "return i, nil",
\* that is, none of the three prefix tests sent it to "continue"
IsCommandStart(arg) ==
    /\ ~HasPrefix(arg, "--")
    /\ ~HasPrefix(arg, "-!")
    /\ ~HasPrefix(arg, "-")

\* The argument the loop is at (os.Args[i])
CurrentArg == osArgs[argIdx + 1]

\* i == 0: continue
ArgvSkipProgram ==
    /\ pc = "argv"
    /\ argIdx < Len(osArgs)
    /\ argIdx = 0
    /\ argIdx' = argIdx + 1
    /\ UNCHANGED <<pc, userConfiguration, osArgs, indexFirstNonFlagArg, enrichErr>>
    /\ UNCHANGED notArgv

\* strings.HasPrefix(arg, "--"): parseDoubleDashParam(configuration, arg[2:])
ArgvDoubleDash ==
    /\ pc = "argv"
    /\ argIdx < Len(osArgs)
    /\ argIdx # 0
    /\ HasPrefix(CurrentArg, "--")
    /\ userConfiguration' =
           parseDoubleDashParam(userConfiguration,
                                SubSeq(CurrentArg, 3, Len(CurrentArg)))
    /\ argIdx' = argIdx + 1
    /\ UNCHANGED <<pc, osArgs, indexFirstNonFlagArg, enrichErr>>
    /\ UNCHANGED notArgv

\* strings.HasPrefix(arg, "-!"): parseBooleanDashParam(configuration, arg[2:], false)
ArgvBangDash ==
    /\ pc = "argv"
    /\ argIdx < Len(osArgs)
    /\ argIdx # 0
    /\ ~HasPrefix(CurrentArg, "--")
    /\ HasPrefix(CurrentArg, "-!")
    /\ userConfiguration' =
           parseBooleanDashParam(userConfiguration,
                                 SubSeq(CurrentArg, 3, Len(CurrentArg)), FALSE)
    /\ argIdx' = argIdx + 1
    /\ UNCHANGED <<pc, osArgs, indexFirstNonFlagArg, enrichErr>>
    /\ UNCHANGED notArgv

\* strings.HasPrefix(arg, "-"): parseBooleanDashParam(configuration, arg[1:], true)
ArgvDash ==
    /\ pc = "argv"
    /\ argIdx < Len(osArgs)
    /\ argIdx # 0
    /\ ~HasPrefix(CurrentArg, "--")
    /\ ~HasPrefix(CurrentArg, "-!")
    /\ HasPrefix(CurrentArg, "-")
    /\ userConfiguration' =
           parseBooleanDashParam(userConfiguration,
                                 SubSeq(CurrentArg, 2, Len(CurrentArg)), TRUE)
    /\ argIdx' = argIdx + 1
    /\ UNCHANGED <<pc, osArgs, indexFirstNonFlagArg, enrichErr>>
    /\ UNCHANGED notArgv

\* return i, nil
ArgvCommandFound ==
    /\ pc = "argv"
    /\ argIdx < Len(osArgs)
    /\ argIdx # 0
    /\ IsCommandStart(CurrentArg)
    /\ indexFirstNonFlagArg' = argIdx
    /\ enrichErr' = FALSE
    /\ pc' = "parsed"
    /\ UNCHANGED <<userConfiguration, osArgs, argIdx>>
    /\ UNCHANGED notArgv

\* The loop ends: return -1, errors.New(...); main then calls log.Fatal
ArgvExhausted ==
    /\ pc = "argv"
    /\ argIdx >= Len(osArgs)
    /\ indexFirstNonFlagArg' = -1
    /\ enrichErr' = TRUE
    /\ pc' = "fatal"
    /\ UNCHANGED <<userConfiguration, osArgs, argIdx>>
    /\ UNCHANGED notArgv

\* Arguments of every shape the loop distinguishes
ArgSamples ==
    { "--name=x", "--save-name", "--", "-!gh", "-!", "-Gm", "-",
      "game.exe", "", "!-", "=" }

\* The characters of the generated long flags
ParamChars == {"k", "="}

LongFlags == {"--" \o body : body \in Strs(ParamChars, MaxParamLen)}

\* The argument vectors of the flag-parsing runs
ArgvInputs ==
    {<<ProgramName>> \o rest : rest \in SeqsUpTo(ArgSamples, MaxArgs)}
    \cup {<<ProgramName, a, "game.exe">> : a \in LongFlags}
    \cup {<<ProgramName, "--k=v", a, "--flag", b, "game.exe">> :
              a \in LongFlags, b \in LongFlags}

InitArgv ==
    /\ pc = "argv"
    /\ userConfiguration = defaultConfiguration
    /\ osArgs \in ArgvInputs
    /\ argIdx = 0
    /\ indexFirstNonFlagArg = -1
    /\ enrichErr = FALSE
    /\ IdleMerge
    /\ IdleCommand
    /\ IdleLaunch
    /\ IdleMigrate
    /\ IdleTail
    /\ IdleDetect
    /\ IdleNames

NextArgv ==
    \/ ArgvSkipProgram
    \/ ArgvDoubleDash
    \/ ArgvBangDash
    \/ ArgvDash
    \/ ArgvCommandFound
    \/ ArgvExhausted

SpecArgv == InitArgv /\ [][NextArgv]_vars

---------------------------------------------------------------------------
(* Claims about flag parsing, under SpecArgv. *)

\* An argument that starts with one of the three flag prefixes
C1_FlagPrefixed(arg) ==
    \/ HasPrefix(arg, "--")
    \/ HasPrefix(arg, "-!")
    \/ HasPrefix(arg, "-")

\* The Go indices, after the program name, of the arguments with no flag prefix
C1_NonFlagIndices ==
    {i \in 1..(Len(osArgs) - 1) : ~C1_FlagPrefixed(osArgs[i + 1])}

\* C1: when enrichConfigurationWithArgvFlags returns an index, it is the index
\* of the first argument after the program name that starts with none of
\* "--", "-!", "-"; it returns an error exactly when every argument after the
\* program name starts with one of them (or there is none).
C1_CommandStartIndex ==
    /\ pc = "parsed" =>
          /\ ~enrichErr
          /\ indexFirstNonFlagArg \in C1_NonFlagIndices
          /\ \A j \in C1_NonFlagIndices : indexFirstNonFlagArg <= j
    /\ pc = "fatal" =>
          /\ enrichErr
          /\ C1_NonFlagIndices = {}

\* C1 witness: the command is found after a "-!" batch and one more flag
C1_Witness ==
    /\ pc = "parsed"
    /\ indexFirstNonFlagArg = 2
    /\ HasPrefix(osArgs[2], "-!")

\* The text after "--" of the argument the loop is at
C2_Body == SubSeq(CurrentArg, 3, Len(CurrentArg))

\* The key of "key=value": the text before the first "="
C2_Key(body) == SubSeq(body, 1, IndexFrom(body, "=", 1) - 1)

\* The value of "key=value": all the text after the first "="
C2_Value(body) == SubSeq(body, IndexFrom(body, "=", 1) + 1, Len(body))

\* C2: every step that handles "--key=value" sets props[key] to exactly
\* value (also when value contains "=") and leaves specialFlags unchanged;
\* every step that handles "--flag" sets specialFlags[flag] = true and leaves
\* props unchanged.
C2_DoubleDashSetsExactValue ==
    [][ ( /\ pc = "argv"
          /\ argIdx # 0
          /\ argIdx < Len(osArgs)
          /\ HasPrefix(CurrentArg, "--")
          /\ argIdx' = argIdx + 1 )
        => IF Contains(C2_Body, "=")
           THEN /\ userConfiguration'.props =
                       MapSet(userConfiguration.props,
                              C2_Key(C2_Body), C2_Value(C2_Body))
                /\ userConfiguration'.specialFlags = userConfiguration.specialFlags
           ELSE /\ userConfiguration'.specialFlags =
                       MapSet(userConfiguration.specialFlags, C2_Body, TRUE)
                /\ userConfiguration'.props = userConfiguration.props
      ]_vars

---------------------------------------------------------------------------
(* Configuration files and the override layers. *)

\* A file holding the YAML document doc: the keys present in the file, each
\* with its value (a key is the path of a yaml tag, "gamescope.hdr")
FileWith(doc) == [exists |-> TRUE, doc |-> doc]

\* yaml.Unmarshal into a zero Configuration: a bool left out of the document
\* stays false
YamlBool(doc, key) == IF key \in DOMAIN doc THEN doc[key] ELSE FALSE

\* ... a string left out stays ""
YamlString(doc, key) == IF key \in DOMAIN doc THEN doc[key] ELSE ""

\* ... a list left out stays nil, which has no elements
YamlList(doc, key) == IF key \in DOMAIN doc THEN doc[key] ELSE << >>

\* ... a map left out stays nil; readOrCreateUserConfiguration then replaces
\* a nil Environment by make(map[string]string)
YamlMap(doc, key) == IF key \in DOMAIN doc THEN doc[key] ELSE EmptyMap

\* readOrCreateUserConfiguration(defaultConfiguration, configurationFile);
\* the default is returned (and written) when the file does not exist
readOrCreateUserConfiguration(defaultCfg, file) ==
    IF ~file.exists THEN defaultCfg
    ELSE [ Environment  |-> YamlMap(file.doc, "environment"),
           Wine         |-> [Alsa |-> YamlBool(file.doc, "wine.alsa")],
           Mangohud     |-> [Enabled |-> YamlBool(file.doc, "mangohud.enabled")],
           Gamemode     |-> [Enabled |-> YamlBool(file.doc, "gamemode.enabled")],
           Gamescope    |-> [Enabled |-> YamlBool(file.doc, "gamescope.enabled"),
                             Hdr     |-> YamlBool(file.doc, "gamescope.hdr"),
                             Args    |-> YamlList(file.doc, "gamescope.args")],
           EosOverlay   |-> [Enabled |-> YamlBool(file.doc, "eos-overlay.enabled")],
           Umu          |-> [Enabled |-> YamlBool(file.doc, "umu.enabled"),
                             Proton  |-> YamlString(file.doc, "umu.proton"),
                             GameId  |-> YamlString(file.doc, "umu.game-id"),
                             Store   |-> YamlString(file.doc, "umu.store"),
                             Args    |-> YamlList(file.doc, "umu.args")],
           PreScripts   |-> YamlList(file.doc, "pre-scripts"),
           PostScripts  |-> YamlList(file.doc, "post-scripts"),
           specialFlags |-> EmptyMap,
           props        |-> EmptyMap ]

\* appendAbsent with the slices.Contains test left out
RECURSIVE appendAbsent_Always(_, _)
appendAbsent_Always(current, override) ==
    IF override = << >> THEN current
    ELSE appendAbsent_Always(Append(current, Head(override)), Tail(override))

\* appendAbsent with slices.Contains asked of the override's earlier entries
\* only after the base list, never of what the loop has appended
appendAbsent_BaseOnly(current, override) ==
    current \o SelectSeq(override, LAMBDA x : ~SliceContains(current, x))

\* applyConfigOverrides: one of the four loops over a list of the override,
\* appending each entry the current list does not contain
RECURSIVE appendAbsent(_, _)
appendAbsent(current, override) ==
    IF override = << >> THEN current
    ELSE appendAbsent(
             IF ~SliceContains(current, Head(override))
             THEN Append(current, Head(override))
             ELSE current,
             Tail(override))

\* applyConfigOverrides: the loop over the override's Environment
mergeEnvironment(current, override) ==
    [key \in DOMAIN current \cup DOMAIN override |->
        IF key \in DOMAIN override THEN override[key] ELSE current[key]]

\* applyConfigOverrides: a string of the override is taken when it is not ""
overrideString(current, override) ==
    IF override # "" THEN override ELSE current

\* applyConfigOverrides(currentConfiguration, overrideConfiguration)
applyConfigOverrides(cur, over) ==
    [ Environment  |-> mergeEnvironment(cur.Environment, over.Environment),
      Wine         |-> [Alsa |-> over.Wine.Alsa],
      Mangohud     |-> [Enabled |-> over.Mangohud.Enabled],
      Gamemode     |-> [Enabled |-> over.Gamemode.Enabled],
      Gamescope    |-> [Enabled |-> over.Gamescope.Enabled,
                        Hdr     |-> over.Gamescope.Hdr,
                        Args    |-> appendAbsent(cur.Gamescope.Args,
                                                 over.Gamescope.Args)],
      EosOverlay   |-> [Enabled |-> over.EosOverlay.Enabled],
      Umu          |-> [Enabled |-> over.Umu.Enabled,
                        Proton  |-> overrideString(cur.Umu.Proton, over.Umu.Proton),
                        GameId  |-> overrideString(cur.Umu.GameId, over.Umu.GameId),
                        Store   |-> overrideString(cur.Umu.Store, over.Umu.Store),
                        Args    |-> appendAbsent(cur.Umu.Args, over.Umu.Args)],
      PreScripts   |-> appendAbsent(cur.PreScripts, over.PreScripts),
      PostScripts  |-> appendAbsent(cur.PostScripts, over.PostScripts),
      specialFlags |-> cur.specialFlags,
      props        |-> cur.props ]

\* main: the by-name override file exists and is applied
MainNameOverride ==
    /\ pc = "name-override"
    /\ nameOverrideFile.exists
    /\ userConfiguration' =
           applyConfigOverrides(userConfiguration,
               readOrCreateUserConfiguration(defaultConfiguration, nameOverrideFile))
    /\ afterNameOverride' = userConfiguration'
    /\ pc' = "id-override"
    /\ UNCHANGED <<nameOverrideFile, idOverrideFile, baseConfiguration>>
    /\ UNCHANGED notMerge

\* main: no by-name override file
MainNoNameOverride ==
    /\ pc = "name-override"
    /\ ~nameOverrideFile.exists
    /\ afterNameOverride' = userConfiguration
    /\ pc' = "id-override"
    /\ UNCHANGED <<userConfiguration, nameOverrideFile, idOverrideFile,
                   baseConfiguration>>
    /\ UNCHANGED notMerge

\* main: the by-id override file exists and is applied
MainIdOverride ==
    /\ pc = "id-override"
    /\ idOverrideFile.exists
    /\ userConfiguration' =
           applyConfigOverrides(userConfiguration,
               readOrCreateUserConfiguration(defaultConfiguration, idOverrideFile))
    /\ pc' = "merged"
    /\ UNCHANGED varsMerge
    /\ UNCHANGED notMerge

\* main: no by-id override file
MainNoIdOverride ==
    /\ pc = "id-override"
    /\ ~idOverrideFile.exists
    /\ pc' = "merged"
    /\ UNCHANGED <<userConfiguration, varsMerge>>
    /\ UNCHANGED notMerge

\* The yaml keys of the feature toggles, the strings and the lists
ToggleKeys ==
    { "wine.alsa", "mangohud.enabled", "gamemode.enabled", "gamescope.enabled",
      "gamescope.hdr", "eos-overlay.enabled", "umu.enabled" }
StringKeys == {"umu.proton", "umu.game-id", "umu.store"}
ListKeys == {"umu.args", "gamescope.args", "pre-scripts", "post-scripts"}

\* The field of a configuration that a yaml key names
Toggle(cfg, key) ==
    CASE key = "wine.alsa" -> cfg.Wine.Alsa
      [] key = "mangohud.enabled" -> cfg.Mangohud.Enabled
      [] key = "gamemode.enabled" -> cfg.Gamemode.Enabled
      [] key = "gamescope.enabled" -> cfg.Gamescope.Enabled
      [] key = "gamescope.hdr" -> cfg.Gamescope.Hdr
      [] key = "eos-overlay.enabled" -> cfg.EosOverlay.Enabled
      [] key = "umu.enabled" -> cfg.Umu.Enabled
StringField(cfg, key) ==
    CASE key = "umu.proton" -> cfg.Umu.Proton
      [] key = "umu.game-id" -> cfg.Umu.GameId
      [] key = "umu.store" -> cfg.Umu.Store
ListField(cfg, key) ==
    CASE key = "umu.args" -> cfg.Umu.Args
      [] key = "gamescope.args" -> cfg.Gamescope.Args
      [] key = "pre-scripts" -> cfg.PreScripts
      [] key = "post-scripts" -> cfg.PostScripts

\* The configuration a complete document holds
ConfigOf(doc) == readOrCreateUserConfiguration(defaultConfiguration, FileWith(doc))

\* A complete document: every key of tg, st and ls, and the environment env
DocOf(tg, st, ls, env) == tg @@ st @@ ls @@ ("environment" :> env)

\* The document of the default configuration
DefaultToggles ==
    [key \in ToggleKeys |-> key \in {"wine.alsa", "gamemode.enabled"}]
DefaultStrings == [key \in StringKeys |-> ""]
DefaultLists == [key \in ListKeys |-> << >>]

\* The entries of the merged lists, and the lists drawn from them
ListItems == {"a", "b", "c"}
Lists == SeqsUpTo(ListItems, MaxListLen)

\* The maps drawn for the environment
EnvMaps ==
    UNION {[keys -> {"1", "2"}] : keys \in SUBSET {"K1", "K2"}}

\* The name of a script or argument that only one side holds
BaseOnlyLists == [key \in ListKeys |-> <<"a">>]
OverrideOnlyLists == [key \in ListKeys |-> <<"a", "b">>]

\* Pairs <<base configuration, override document>> that vary one list field
ListScenarios ==
    { << ConfigOf(DocOf(DefaultToggles, DefaultStrings,
                        [BaseOnlyLists EXCEPT ![key] = bl], EmptyMap)),
         [OverrideOnlyLists EXCEPT ![key] = ol] >> :
      key \in ListKeys, bl \in Lists, ol \in Lists }

\* ... that vary the toggles: the override supplies the toggles of one subset
ToggleScenarios ==
    { << ConfigOf(DocOf(tg, DefaultStrings, DefaultLists, EmptyMap)),
         [key \in supplied |-> value] >> :
      tg \in {DefaultToggles, [key \in ToggleKeys |-> TRUE],
              [key \in ToggleKeys |-> FALSE]},
      supplied \in SUBSET ToggleKeys, value \in BOOLEAN }

\* ... that vary the strings: each absent, empty or set in the override
StringScenarios ==
    { << ConfigOf(DocOf(DefaultToggles, st, DefaultLists, EmptyMap)),
         DocOf(DefaultToggles, ov, << >>, EmptyMap) >> :
      st \in [StringKeys -> {"", "base"}],
      ov \in UNION {[keys -> {"", "over"}] : keys \in SUBSET StringKeys} }

\* ... that vary the environment: the override's map absent or present
EnvScenarios ==
    { << ConfigOf(DocOf(DefaultToggles, DefaultStrings, DefaultLists, env)),
         DocOf(DefaultToggles, << >>, << >>, ov) >> :
      env \in EnvMaps, ov \in EnvMaps }
    \cup
    { << ConfigOf(DocOf(DefaultToggles, DefaultStrings, DefaultLists, env)),
         DefaultToggles >> : env \in EnvMaps }

MergeScenarios ==
    ListScenarios \cup ToggleScenarios \cup StringScenarios \cup EnvScenarios

\* A second override document, for a by-id layer that differs from the
\* by-name layer
OtherOverride ==
    DocOf([key \in ToggleKeys |-> TRUE], [key \in StringKeys |-> "id"],
          [key \in ListKeys |-> <<"c", "a">>], ("K1" :> "3"))

InitMerge ==
    /\ pc = "name-override"
    /\ \E scenario \in MergeScenarios :
          /\ userConfiguration = scenario[1]
          /\ baseConfiguration = scenario[1]
          /\ afterNameOverride = scenario[1]
          /\ nameOverrideFile \in {NoFile, FileWith(scenario[2])}
          /\ idOverrideFile \in
                 {NoFile, FileWith(scenario[2]), FileWith(OtherOverride)}
    /\ IdleArgv
    /\ IdleCommand
    /\ IdleLaunch
    /\ IdleMigrate
    /\ IdleTail
    /\ IdleDetect
    /\ IdleNames

NextMerge ==
    \/ MainNameOverride
    \/ MainNoNameOverride
    \/ MainIdOverride
    \/ MainNoIdOverride

SpecMerge == InitMerge /\ [][NextMerge]_vars

---------------------------------------------------------------------------
(* Claims about the override layers, under SpecMerge. *)

\* C3: applyConfigOverrides is idempotent: when the by-id layer applies the
\* same override document as the by-name layer did, the configuration after
\* the second application equals the configuration after the first, in every
\* list field, every toggle and string, and the environment map.
C3_MergeIdempotent ==
    ( /\ pc = "merged"
      /\ nameOverrideFile.exists
      /\ idOverrideFile = nameOverrideFile )
    => /\ \A key \in ListKeys :
              ListField(userConfiguration, key) = ListField(afterNameOverride, key)
       /\ \A key \in ToggleKeys :
              Toggle(userConfiguration, key) = Toggle(afterNameOverride, key)
       /\ \A key \in StringKeys :
              StringField(userConfiguration, key) = StringField(afterNameOverride, key)
       /\ userConfiguration.Environment = afterNameOverride.Environment
       /\ userConfiguration = afterNameOverride

\* C3 witness: the same override, with a repeated entry the base list lacks,
\* has been applied twice
C3_Witness ==
    /\ pc = "merged"
    /\ nameOverrideFile.exists
    /\ idOverrideFile = nameOverrideFile
    /\ YamlList(nameOverrideFile.doc, "pre-scripts") = <<"b", "b">>
    /\ baseConfiguration.PreScripts = <<"a">>
    /\ userConfiguration.PreScripts = <<"a", "b">>

\* The entries of ol, from position i on, that bl does not hold and that do
\* not occur earlier in ol, in ol's order
RECURSIVE C4_NewEntries(_, _, _)
C4_NewEntries(bl, ol, i) ==
    IF i > Len(ol) THEN << >>
    ELSE ( IF /\ ~\E k \in 1..Len(bl) : bl[k] = ol[i]
              /\ ~\E j \in 1..(i - 1) : ol[j] = ol[i]
           THEN <<ol[i]>>
           ELSE << >> )
         \o C4_NewEntries(bl, ol, i + 1)

\* C4: after an override is applied, each list field is the base list,
\* unchanged, followed by exactly the override's entries that the base list
\* lacks, each once, in the override's order.
C4_ListUnion ==
    (pc = "id-override" /\ nameOverrideFile.exists)
    => \A key \in ListKeys :
          ListField(userConfiguration, key) =
              ListField(baseConfiguration, key)
              \o C4_NewEntries(ListField(baseConfiguration, key),
                               YamlList(nameOverrideFile.doc, key), 1)

\* C4 witness: a base list with a duplicate, an override that repeats a new
\* entry
C4_Witness ==
    /\ pc = "id-override"
    /\ nameOverrideFile.exists
    /\ baseConfiguration.Gamescope.Args = <<"a", "a">>
    /\ YamlList(nameOverrideFile.doc, "gamescope.args") = <<"b", "b">>
    /\ userConfiguration.Gamescope.Args = <<"a", "a", "b">>

\* C9: after an override is applied, a toggle or string has the override's
\* value when the override file supplies it (toggle present, string non-empty)
\* and the base value when it does not; every key of the override's
\* environment has the override's value and every other base key its base
\* value.
C9_ScalarRule ==
    (pc = "id-override" /\ nameOverrideFile.exists)
    => LET doc == nameOverrideFile.doc
           overEnv == YamlMap(doc, "environment")
       IN /\ \A key \in ToggleKeys :
                 Toggle(userConfiguration, key) =
                     IF key \in DOMAIN doc THEN doc[key]
                     ELSE Toggle(baseConfiguration, key)
          /\ \A key \in StringKeys :
                 StringField(userConfiguration, key) =
                     IF YamlString(doc, key) # "" THEN doc[key]
                     ELSE StringField(baseConfiguration, key)
          /\ \A key \in DOMAIN overEnv :
                 userConfiguration.Environment[key] = overEnv[key]
          /\ \A key \in DOMAIN baseConfiguration.Environment \ DOMAIN overEnv :
                 userConfiguration.Environment[key] =
                     baseConfiguration.Environment[key]

---------------------------------------------------------------------------
(* Command assembly. *)

GAMEMODE_BIN_NAME == "gamemoderun"
MANGOHUD_BIN_NAME == "mangohud"
GAMESCOPE_BIN_NAME == "gamescope"
UMU_RUN_BIN_NAME == "umu-run"
GAMESCOPE_HDR_ARGV == "--hdr-enabled"

\* main: userConfigDir and compatDataBase
UserConfigDir == "/home/u/.config"
CompatDataBase == "/home/u/.local/share/plauncher/compatdata"

\* filepath.Join of a clean directory and one clean element: an empty element
\* is ignored
PathJoin(dir, elem) == IF elem = "" THEN dir ELSE dir \o "/" \o elem

\* checkIfBinExists(binName): the first line `which` prints, and whether it
\* succeeded
checkIfBinExists(binName) ==
    [ cmd    |-> IF binName \in binaries THEN "/usr/bin/" \o binName ELSE "",
      exists |-> binName \in binaries ]

\* enrichCommandWithMangohud: the stage acts
mangohudActive(configuration) ==
    configuration.Mangohud.Enabled /\ checkIfBinExists(MANGOHUD_BIN_NAME).exists

\* enrichCommandWithMangohud: the three environment entries
mangohudEnvironment(environment) ==
    MapSet(MapSet(MapSet(environment,
        "MANGOHUD_CONFIGFILE",
            PathJoin(PathJoin(UserConfigDir, "MangoHud"), "MangoHud.conf")),
        "MANGOHUD", "1"),
        "DISABLE_MANGOAPP", "1")

\* enrichCommandWithGamemode: the stage acts
gamemodeActive(configuration) ==
    configuration.Gamemode.Enabled /\ checkIfBinExists(GAMEMODE_BIN_NAME).exists

\* enrichCommandWithGamescope: the stage acts
gamescopeActive(configuration) ==
    configuration.Gamescope.Enabled /\ checkIfBinExists(GAMESCOPE_BIN_NAME).exists

\* enrichCommandWithGamescope: the HDR argument is added
gamescopeAddsHdr(configuration) ==
    /\ configuration.Gamescope.Hdr
    /\ ~SliceContains(configuration.Gamescope.Args, GAMESCOPE_HDR_ARGV)

\* enrichCommandWithGamescope: the configuration after the HDR block, which
\* appends the HDR argument to Gamescope.Args and sets two environment entries
gamescopeConfiguration(configuration) ==
    IF gamescopeAddsHdr(configuration)
    THEN [configuration EXCEPT
            !.Gamescope.Args = Append(configuration.Gamescope.Args,
                                      GAMESCOPE_HDR_ARGV),
            !.Environment = MapSet(MapSet(configuration.Environment,
                                "DXVK_HDR", "1"), "ENABLE_HDR_WSI", "1")]
    ELSE configuration

\* enrichCommandWithGamescope: every argument split on " ", the pieces in order
RECURSIVE splitArgs(_)
splitArgs(args) ==
    IF args = << >> THEN << >>
    ELSE Split(Head(args), " ") \o splitArgs(Tail(args))

\* enrichCommandWithGamescope: the tokens the stage appends to the command
gamescopeTokens(cmd, configuration) ==
    <<cmd>>
    \o splitArgs(gamescopeConfiguration(configuration).Gamescope.Args)
    \o <<"--">>

\* enrichCommandWithUmu: the two outer conditions
umuActive(configuration) ==
    /\ checkIfBinExists(UMU_RUN_BIN_NAME).exists
    /\ ~steamCompatSession
    /\ configuration.Umu.Enabled

\* enrichCommandWithUmu: prefixBaseFolder
prefixBaseFolder(configuration) ==
    PathJoin(CompatDataBase, MapGet(configuration.props, "name"))

\* umuEnvironment with the Umu.GameId assignment left out
umuEnvironment_NoGameIdOverride(configuration) ==
    LET props == configuration.props
        env0 == configuration.Environment
        env1 == IF MapHas(props, "id") /\ props["id"] # ""
                THEN MapSet(env0, "GAMEID", props["id"])
                ELSE env0
        env2 == IF ~MapHas(env1, "GAMEID") \/ env1["GAMEID"] = ""
                THEN MapSet(env1, "GAMEID", MapGet(props, "name"))
                ELSE env1
        env3 == MapSet(env2, "WINEPREFIX", prefixBaseFolder(configuration))
        env5 == MapSet(env3, "PROTONPATH", configuration.Umu.Proton)
    IN MapSet(env5, "STORE", configuration.Umu.Store)

\* enrichCommandWithUmu: the Environment after the stage's assignments, in the
\* order the code makes them
umuEnvironment(configuration) ==
    LET props == configuration.props
        env0 == configuration.Environment
        env1 == IF MapHas(props, "id") /\ props["id"] # ""
                THEN MapSet(env0, "GAMEID", props["id"])
                ELSE env0
        env2 == IF ~MapHas(env1, "GAMEID") \/ env1["GAMEID"] = ""
                THEN MapSet(env1, "GAMEID", MapGet(props, "name"))
                ELSE env1
        env3 == MapSet(env2, "WINEPREFIX", prefixBaseFolder(configuration))
        env4 == IF configuration.Umu.GameId # ""
                THEN MapSet(env3, "GAMEID", configuration.Umu.GameId)
                ELSE env3
        env5 == MapSet(env4, "PROTONPATH", configuration.Umu.Proton)
    IN MapSet(env5, "STORE", configuration.Umu.Store)

\* command = enrichCommandWithMangohud(command, &userConfiguration, userConfigDir)
AssembleMangohud ==
    /\ pc = "mangohud"
    /\ userConfiguration' =
           IF mangohudActive(userConfiguration)
           THEN [userConfiguration EXCEPT
                   !.Environment = mangohudEnvironment(userConfiguration.Environment)]
           ELSE userConfiguration
    /\ pc' = "gamemode"
    /\ UNCHANGED varsCommand
    /\ UNCHANGED notCommand

\* command = enrichCommandWithGamemode(command, &userConfiguration)
AssembleGamemode ==
    /\ pc = "gamemode"
    /\ command' =
           IF gamemodeActive(userConfiguration)
           THEN Append(command, checkIfBinExists(GAMEMODE_BIN_NAME).cmd)
           ELSE command
    /\ pc' = "gamescope"
    /\ UNCHANGED <<userConfiguration, binaries, steamCompatSession, nonFlagArgs,
                   protonStat, createdDirs, configBeforeAssembly>>
    /\ UNCHANGED notCommand

\* command = enrichCommandWithGamescope(command, &userConfiguration, userConfigDir)
AssembleGamescope ==
    /\ pc = "gamescope"
    /\ IF gamescopeActive(userConfiguration)
       THEN /\ command' = command \o gamescopeTokens(
                              checkIfBinExists(GAMESCOPE_BIN_NAME).cmd,
                              userConfiguration)
            /\ userConfiguration' = gamescopeConfiguration(userConfiguration)
       ELSE UNCHANGED <<command, userConfiguration>>
    /\ pc' = "umu"
    /\ UNCHANGED <<binaries, steamCompatSession, nonFlagArgs, protonStat,
                   createdDirs, configBeforeAssembly>>
    /\ UNCHANGED notCommand

\* enrichCommandWithUmu: umu-run is missing, a compat session is detected or
\* umu is disabled; the command is returned as it is
AssembleUmuSkip ==
    /\ pc = "umu"
    /\ ~umuActive(userConfiguration)
    /\ pc' = "append-args"
    /\ UNCHANGED <<userConfiguration, varsCommand>>
    /\ UNCHANGED notCommand

\* enrichCommandWithUmu: props has no "name": log.Fatalln
AssembleUmuNoName ==
    /\ pc = "umu"
    /\ umuActive(userConfiguration)
    /\ ~MapHas(userConfiguration.props, "name")
    /\ pc' = "fatal"
    /\ UNCHANGED <<userConfiguration, varsCommand>>
    /\ UNCHANGED notCommand

\* enrichCommandWithUmu: os.Stat(Umu.Proton) finds no directory: log.Fatalln
AssembleUmuNoProton ==
    /\ pc = "umu"
    /\ umuActive(userConfiguration)
    /\ MapHas(userConfiguration.props, "name")
    /\ protonStat # "dir"
    /\ pc' = "fatal"
    /\ UNCHANGED <<userConfiguration, varsCommand>>
    /\ UNCHANGED notCommand

\* enrichCommandWithUmu: the profile directory is made, the environment set
\* and umu-run and its arguments appended
AssembleUmu ==
    /\ pc = "umu"
    /\ umuActive(userConfiguration)
    /\ MapHas(userConfiguration.props, "name")
    /\ protonStat = "dir"
    /\ createdDirs' = createdDirs \cup {prefixBaseFolder(userConfiguration)}
    /\ userConfiguration' =
           [userConfiguration EXCEPT !.Environment = umuEnvironment(userConfiguration)]
    /\ command' = Append(command, checkIfBinExists(UMU_RUN_BIN_NAME).cmd)
                  \o userConfiguration.Umu.Args
    /\ pc' = "append-args"
    /\ UNCHANGED <<binaries, steamCompatSession, nonFlagArgs, protonStat,
                   configBeforeAssembly>>
    /\ UNCHANGED notCommand

\* command = append(command, nonFlagArgs...)
AssembleAppendArgs ==
    /\ pc = "append-args"
    /\ command' = command \o nonFlagArgs
    /\ pc' = "assembled"
    /\ UNCHANGED <<userConfiguration, binaries, steamCompatSession, nonFlagArgs,
                   protonStat, createdDirs, configBeforeAssembly>>
    /\ UNCHANGED notCommand

\* The configurations the assembly starts from: the compositor stages varied
GamescopeConfigurations ==
    { [defaultConfiguration EXCEPT
          !.Mangohud.Enabled = mh, !.Gamemode.Enabled = gm,
          !.Gamescope = [Enabled |-> gs, Hdr |-> hdr, Args |-> args],
          !.props = ("name" :> "game")] :
      mh \in BOOLEAN, gm \in BOOLEAN, gs \in BOOLEAN, hdr \in BOOLEAN,
      args \in { << >>, <<"--foo">>, <<"--hdr-enabled">>,
                 <<"-W 1920", "--foo">>, <<"--foo", "--hdr-enabled", "-f">> } }

\* A map with the key when the drawn value is not Absent
Absent == "<absent>"
MaybeEntry(key, value) == IF value = Absent THEN EmptyMap ELSE (key :> value)

\* ... the runner stage varied
UmuConfigurations ==
    { [defaultConfiguration EXCEPT
          !.Gamemode.Enabled = FALSE,
          !.Umu = [Enabled |-> en, Proton |-> "/opt/proton", GameId |-> gid,
                   Store |-> "egs", Args |-> <<"--umu-arg">>],
          !.Environment = env,
          !.props = props] :
      en \in BOOLEAN, gid \in {"", "umu-7"},
      env \in {MaybeEntry("GAMEID", v) : v \in {Absent, "", "env-id"}},
      props \in {MaybeEntry("name", nm) @@ MaybeEntry("id", id) :
                    nm \in {Absent, "", "game"}, id \in {Absent, "", "42"}} }

InitCommand ==
    /\ pc = "mangohud"
    /\ \/ /\ userConfiguration \in GamescopeConfigurations
          /\ binaries \in SUBSET {MANGOHUD_BIN_NAME, GAMEMODE_BIN_NAME,
                                  GAMESCOPE_BIN_NAME}
          /\ steamCompatSession = FALSE
          /\ protonStat = "absent"
       \/ /\ userConfiguration \in UmuConfigurations
          /\ binaries \in SUBSET {UMU_RUN_BIN_NAME}
          /\ steamCompatSession \in BOOLEAN
          /\ protonStat \in {"dir", "file", "absent"}
    /\ configBeforeAssembly = userConfiguration
    /\ command = << >>
    /\ nonFlagArgs = <<"game.exe", "-windowed">>
    /\ createdDirs = {}
    /\ IdleArgv
    /\ IdleMerge
    /\ IdleLaunch
    /\ IdleMigrate
    /\ IdleTail
    /\ IdleDetect
    /\ IdleNames

NextCommand ==
    \/ AssembleMangohud
    \/ AssembleGamemode
    \/ AssembleGamescope
    \/ AssembleUmuSkip
    \/ AssembleUmuNoName
    \/ AssembleUmuNoProton
    \/ AssembleUmu
    \/ AssembleAppendArgs

SpecCommand == InitCommand /\ [][NextCommand]_vars

---------------------------------------------------------------------------
(* Claims about command assembly, under SpecCommand. *)

\* The scenario of C5: gamescope enabled with HDR and the one extra argument
\* "--foo", its binary present, the gamemode and runner stages inactive
C5_Scenario ==
    /\ pc = "assembled"
    /\ configBeforeAssembly.Gamescope =
           [Enabled |-> TRUE, Hdr |-> TRUE, Args |-> <<"--foo">>]
    /\ GAMESCOPE_BIN_NAME \in binaries
    /\ ~gamemodeActive(configBeforeAssembly)
    /\ ~umuActive(configBeforeAssembly)

\* C5: in the scenario the command is the gamescope binary, "--hdr-enabled",
\* "--foo", "--", then the game-launch tokens.
C5_HdrBeforeArgs ==
    C5_Scenario =>
        command = <<"/usr/bin/gamescope", "--hdr-enabled", "--foo", "--">>
                  \o nonFlagArgs

\* The runner stage has acted
C10_UmuActed ==
    /\ pc = "assembled"
    /\ umuActive(configBeforeAssembly)

\* C10 as stated: GAMEID is props["id"] when non-empty, else Umu.GameId when
\* non-empty, else props["name"].
C10_IdPropertyFirst ==
    C10_UmuActed =>
        userConfiguration.Environment["GAMEID"] =
            IF MapGet(configBeforeAssembly.props, "id") # ""
            THEN configBeforeAssembly.props["id"]
            ELSE IF configBeforeAssembly.Umu.GameId # ""
            THEN configBeforeAssembly.Umu.GameId
            ELSE MapGet(configBeforeAssembly.props, "name")

\* C10 as amended: GAMEID is Umu.GameId when non-empty, else props["id"] when
\* non-empty, else the GAMEID the configured Environment already holds when
\* non-empty, else props["name"].
C10_GameIdOverrideFirst ==
    C10_UmuActed =>
        userConfiguration.Environment["GAMEID"] =
            IF configBeforeAssembly.Umu.GameId # ""
            THEN configBeforeAssembly.Umu.GameId
            ELSE IF MapGet(configBeforeAssembly.props, "id") # ""
            THEN configBeforeAssembly.props["id"]
            ELSE IF MapGet(configBeforeAssembly.Environment, "GAMEID") # ""
            THEN configBeforeAssembly.Environment["GAMEID"]
            ELSE MapGet(configBeforeAssembly.props, "name")

\* C10 witness: the runner stage has acted with both props["id"] and
\* Umu.GameId non-empty
C10_Witness ==
    /\ C10_UmuActed
    /\ MapGet(configBeforeAssembly.props, "id") = "42"
    /\ configBeforeAssembly.Umu.GameId = "umu-7"
    /\ userConfiguration.Environment["GAMEID"] = "umu-7"

\* The runner stage is over: main is at or past the append of nonFlagArgs, or
\* the process has ended in log.Fatalln
C11_UmuStageOver == pc \in {"append-args", "assembled", "fatal"}

\* C11: when STEAM_COMPAT_DATA_PATH is not set, umu is enabled (and umu-run is
\* installed) and the resolved name is missing or empty, the stage ends in a
\* fatal error, no profile directory is made and no umu-run token is in the
\* command.
C11_EmptyNameIsFatal ==
    ( /\ C11_UmuStageOver
      /\ umuActive(configBeforeAssembly)
      /\ MapGet(configBeforeAssembly.props, "name") = "" )
    => /\ pc = "fatal"
       /\ createdDirs = {}
       /\ ~SliceContains(command, checkIfBinExists(UMU_RUN_BIN_NAME).cmd)

\* C12: the assembly stages change nothing of the configuration but entries of
\* the Environment map: with the Environment put back, the configuration is the
\* one the assembly started from.
C12_AssemblyChangesOnlyEnvironment ==
    [userConfiguration EXCEPT !.Environment = configBeforeAssembly.Environment]
        = configBeforeAssembly

---------------------------------------------------------------------------
(* Special flags, hook scripts and the game process. *)

\* yaml.Marshal(configuration): every persisted field, under its yaml key
yamlMarshal(configuration) ==
    [key \in ToggleKeys |-> Toggle(configuration, key)]
    @@ [key \in StringKeys |-> StringField(configuration, key)]
    @@ [key \in ListKeys |-> ListField(configuration, key)]
    @@ ("environment" :> configuration.Environment)

\* stripUnecessaryData: the four keys deleted from the Environment map (the map
\* is shared with userConfiguration, whose copy was passed by value)
stripUnecessaryData(environment) ==
    [key \in DOMAIN environment \
        {"STEAM_COMPAT_DATA_PATH", "MANGOHUD", "DISABLE_MANGOAPP",
         "MANGOHUD_CONFIGFILE"} |-> environment[key]]

\* createNameOverrideFile / createIdOverrideFile write a file: the flag is
\* set, the property exists and no file is at the path
savesOverride(configuration, flag, prop, file) ==
    /\ MapHas(configuration.specialFlags, flag)
    /\ MapHas(configuration.props, prop)
    /\ ~file.exists

\* processSpecialFlags(userConfiguration.specialFlags, userConfiguration,
\* gameOverridesFolder): the by-name file, then the by-id file
LaunchSpecialFlags ==
    /\ pc = "special-flags"
    /\ LET byName == savesOverride(userConfiguration, "save-name", "name",
                                   nameOverrideFile)
           afterName ==
               IF byName
               THEN [userConfiguration EXCEPT
                       !.Environment = stripUnecessaryData(userConfiguration.Environment)]
               ELSE userConfiguration
           byId == savesOverride(afterName, "save-id", "id", idOverrideFile)
           afterId ==
               IF byId
               THEN [afterName EXCEPT
                       !.Environment = stripUnecessaryData(afterName.Environment)]
               ELSE afterName
       IN /\ nameOverrideFile' =
                 IF byName THEN FileWith(yamlMarshal(afterName)) ELSE nameOverrideFile
          /\ idOverrideFile' =
                 IF byId THEN FileWith(yamlMarshal(afterId)) ELSE idOverrideFile
          /\ userConfiguration' = afterId
    /\ pc' = "pre-scripts"
    /\ scriptIdx' = 0
    /\ UNCHANGED <<baseConfiguration, afterNameOverride>>
    /\ UNCHANGED <<events, exitStatus>>
    /\ UNCHANGED <<varsArgv, varsCommand, varsMigrate, varsTail, varsDetect, varsNames>>

\* executeScripts(userConfiguration.PreScripts, ...): cmdHandle.Run() starts
\* the shell on the next script
PreScriptStart ==
    /\ pc = "pre-scripts"
    /\ scriptIdx < Len(userConfiguration.PreScripts)
    /\ events' = Append(events,
                     <<"pre-script", "start", userConfiguration.PreScripts[scriptIdx + 1]>>)
    /\ pc' = "pre-script-running"
    /\ UNCHANGED <<userConfiguration, scriptIdx, exitStatus>>
    /\ UNCHANGED notLaunch

\* ... cmdHandle.Run() returns when the script has ended; its error is dropped
PreScriptWait ==
    /\ pc = "pre-script-running"
    /\ events' = Append(events,
                     <<"pre-script", "end", userConfiguration.PreScripts[scriptIdx + 1]>>)
    /\ scriptIdx' = scriptIdx + 1
    /\ pc' = "pre-scripts"
    /\ UNCHANGED <<userConfiguration, exitStatus>>
    /\ UNCHANGED notLaunch

\* The loop over the pre-scripts ends: main goes on to cmdHandle.Output()
PreScriptsDone ==
    /\ pc = "pre-scripts"
    /\ scriptIdx >= Len(userConfiguration.PreScripts)
    /\ pc' = "game"
    /\ UNCHANGED <<userConfiguration, events, scriptIdx, exitStatus>>
    /\ UNCHANGED notLaunch

\* cmdHandle.Output(): the game process cannot be started; err != nil
GameSpawnFails ==
    /\ pc = "game"
    /\ events' = Append(events, <<"game", "spawn-failed", command[1]>>)
    /\ scriptIdx' = 0
    /\ pc' = "err-post-scripts"
    /\ UNCHANGED <<userConfiguration, exitStatus>>
    /\ UNCHANGED notLaunch

\* cmdHandle.Output(): the game process is started
GameStart ==
    /\ pc = "game"
    /\ events' = Append(events, <<"game", "start", command[1]>>)
    /\ pc' = "game-running"
    /\ UNCHANGED <<userConfiguration, scriptIdx, exitStatus>>
    /\ UNCHANGED notLaunch

\* cmdHandle.Output() returns when the game process has ended; err != nil
\* when its exit code is not 0
GameExit ==
    /\ pc = "game-running"
    /\ \E code \in {0, 1} :
          /\ events' = Append(events, <<"game", "end", code>>)
          /\ pc' = IF code # 0 THEN "err-post-scripts" ELSE "post-scripts"
    /\ scriptIdx' = 0
    /\ UNCHANGED <<userConfiguration, exitStatus>>
    /\ UNCHANGED notLaunch

\* executeScripts(userConfiguration.PostScripts, ...), at the call site inside
\* the err != nil block ("err-post-scripts") or after it ("post-scripts")
PostScriptStart ==
    /\ pc \in {"err-post-scripts", "post-scripts"}
    /\ scriptIdx < Len(userConfiguration.PostScripts)
    /\ events' = Append(events,
                     <<"post-script", "start", userConfiguration.PostScripts[scriptIdx + 1]>>)
    /\ pc' = IF pc = "err-post-scripts" THEN "err-post-script-running"
             ELSE "post-script-running"
    /\ UNCHANGED <<userConfiguration, scriptIdx, exitStatus>>
    /\ UNCHANGED notLaunch

PostScriptWait ==
    /\ pc \in {"err-post-script-running", "post-script-running"}
    /\ events' = Append(events,
                     <<"post-script", "end", userConfiguration.PostScripts[scriptIdx + 1]>>)
    /\ scriptIdx' = scriptIdx + 1
    /\ pc' = IF pc = "err-post-script-running" THEN "err-post-scripts"
             ELSE "post-scripts"
    /\ UNCHANGED <<userConfiguration, exitStatus>>
    /\ UNCHANGED notLaunch

\* logFatalf if the failure were only logged: main would go on to the
\* executeScripts call after the if block and return
logFatalf_OnlyLogs == [pc |-> "post-scripts", exitStatus |-> -1]

\* log.Fatalf: the message is logged and the process ends with os.Exit(1)
logFatalf == [pc |-> "exited", exitStatus |-> 1]

\* The post-scripts of the err != nil branch are done: log.Fatalf
LaunchFatalEnd ==
    /\ pc = "err-post-scripts"
    /\ scriptIdx >= Len(userConfiguration.PostScripts)
    /\ pc' = logFatalf.pc
    /\ exitStatus' = logFatalf.exitStatus
    /\ scriptIdx' = 0
    /\ UNCHANGED <<userConfiguration, events>>
    /\ UNCHANGED notLaunch

\* The post-scripts after the if block are done: main returns, exit status 0
LaunchEnd ==
    /\ pc = "post-scripts"
    /\ scriptIdx >= Len(userConfiguration.PostScripts)
    /\ pc' = "exited"
    /\ exitStatus' = 0
    /\ UNCHANGED <<userConfiguration, events, scriptIdx>>
    /\ UNCHANGED notLaunch

\* The names of the hook scripts, and the lists drawn from them
ScriptNames == {"s1.sh", "s2.sh"}
ScriptLists == SeqsUpTo(ScriptNames, MaxScripts)

InitLaunch ==
    /\ pc = "special-flags"
    /\ \E pre \in ScriptLists, post \in ScriptLists,
          flags \in SUBSET {"save-name", "save-id"} :
          userConfiguration =
              [defaultConfiguration EXCEPT
                  !.PreScripts = pre, !.PostScripts = post,
                  !.Environment = ("MANGOHUD" :> "1" @@ "DXVK_HDR" :> "1"),
                  !.specialFlags = [f \in flags |-> TRUE],
                  !.props = ("name" :> "game" @@ "id" :> "42")]
    /\ nameOverrideFile \in {NoFile, FileWith(OtherOverride)}
    /\ idOverrideFile = NoFile
    /\ baseConfiguration = defaultConfiguration
    /\ afterNameOverride = defaultConfiguration
    /\ command = <<"/usr/bin/gamemoderun", "game.exe">>
    /\ binaries = {GAMEMODE_BIN_NAME}
    /\ steamCompatSession = FALSE
    /\ nonFlagArgs = <<"game.exe">>
    /\ protonStat = "absent"
    /\ createdDirs = {}
    /\ configBeforeAssembly = defaultConfiguration
    /\ events = << >>
    /\ scriptIdx = 0
    /\ exitStatus = -1
    /\ IdleArgv
    /\ IdleMigrate
    /\ IdleTail
    /\ IdleDetect
    /\ IdleNames

NextLaunch ==
    \/ LaunchSpecialFlags
    \/ PreScriptStart
    \/ PreScriptWait
    \/ PreScriptsDone
    \/ GameSpawnFails
    \/ GameStart
    \/ GameExit
    \/ PostScriptStart
    \/ PostScriptWait
    \/ LaunchFatalEnd
    \/ LaunchEnd

SpecLaunch == InitLaunch /\ [][NextLaunch]_vars

---------------------------------------------------------------------------
(* Claims about the launch, under SpecLaunch. *)

\* The start and end events of the scripts of a list, in the list's order
RECURSIVE C6_ScriptEvents(_, _)
C6_ScriptEvents(phase, scripts) ==
    IF scripts = << >> THEN << >>
    ELSE <<<<phase, "start", Head(scripts)>>, <<phase, "end", Head(scripts)>>>>
         \o C6_ScriptEvents(phase, Tail(scripts))

\* The three outcomes of the game process, each with the launcher's exit status
C6_GameOutcomes ==
    { [events |-> <<<<"game", "spawn-failed", command[1]>>>>, zero |-> FALSE],
      [events |-> <<<<"game", "start", command[1]>>, <<"game", "end", 1>>>>,
       zero |-> FALSE],
      [events |-> <<<<"game", "start", command[1]>>, <<"game", "end", 0>>>>,
       zero |-> TRUE] }

\* The whole run for one outcome: every pre-script from start to end, the
\* game, every post-script from start to end, once
C6_Run(outcome) ==
    C6_ScriptEvents("pre-script", userConfiguration.PreScripts)
    \o outcome.events
    \o C6_ScriptEvents("post-script", userConfiguration.PostScripts)

C6_IsPrefix(s, t) == Len(s) <= Len(t) /\ SubSeq(t, 1, Len(s)) = s

\* C6: every pre-script ends before the game process starts, every
\* post-script runs after the game process has ended or failed to start, the
\* post-scripts run exactly once on every outcome, and the launcher exits 0
\* exactly when the game process was started and exited 0, nonzero otherwise.
C6_LaunchOrder ==
    /\ \E outcome \in C6_GameOutcomes : C6_IsPrefix(events, C6_Run(outcome))
    /\ pc = "exited" =>
          \E outcome \in C6_GameOutcomes :
              /\ events = C6_Run(outcome)
              /\ (exitStatus = 0) = outcome.zero
              /\ exitStatus \in {0, 1}

\* C6 witness: the game failed to start, both post-scripts ran after it, and
\* the launcher exited nonzero
C6_Witness ==
    /\ pc = "exited"
    /\ exitStatus = 1
    /\ Len(userConfiguration.PreScripts) = 2
    /\ Len(userConfiguration.PostScripts) = 2
    /\ events[5] = <<"game", "spawn-failed", command[1]>>
    /\ Len(events) = 9

---------------------------------------------------------------------------
(* The filesystem of the compat-data migration.                            *)
(*                                                                         *)
(* A path is a sequence of components, the first an absolute directory; fs *)
(* maps each existing path to its node: a directory, a regular file (with  *)
(* its data) or a symlink (with its target).  A mode is the set of its     *)
(* permission bits, of which the owner's read and write bits and the       *)
(* group's write bit are kept.  The directories above a first component    *)
(* exist and are writable.                                                 *)
(***************************************************************************)

\* oldCompatData, the value of STEAM_COMPAT_DATA_PATH
OldCompatData == <<"/steam/compatdata/42">>

\* main: compatDataBase, as a path
NewCompatDataBase == <<CompatDataBase>>

\* filepath.Join(homeDir, ".compatdata")
CompatDataBaseShortcut == <<"/home/u/.compatdata">>

\* filepath.Join(path, elem): an empty element is ignored
JoinPath(path, elem) == IF elem = "" THEN path ELSE Append(path, elem)

\* The path as the string the code holds
RECURSIVE PathString(_)
PathString(path) ==
    IF Len(path) = 1 THEN path[1]
    ELSE PathString(SubSeq(path, 1, Len(path) - 1)) \o "/" \o path[Len(path)]

\* The nodes of a filesystem
DirNode(mode) == [type |-> "dir", mode |-> mode, data |-> "", target |-> << >>]
FileNode(mode, data) == [type |-> "file", mode |-> mode, data |-> data, target |-> << >>]
SymlinkNode(target) == [type |-> "symlink", mode |-> {}, data |-> "", target |-> target]

\* The directory a path is in
Parent(path) == SubSeq(path, 1, Len(path) - 1)

\* The entries of a directory, and everything below it
Children(files, dir) ==
    {p \in DOMAIN files : Len(p) = Len(dir) + 1 /\ SubSeq(p, 1, Len(dir)) = dir}
Descendants(files, dir) ==
    {p \in DOMAIN files : Len(p) > Len(dir) /\ SubSeq(p, 1, Len(dir)) = dir}

\* files without the paths of gone
Without(files, gone) == [p \in DOMAIN files \ gone |-> files[p]]

\* files with node at path
WithNode(files, path, node) ==
    [p \in DOMAIN files \cup {path} |-> IF p = path THEN node ELSE files[p]]

\* os.Lstat(path): err is not IsNotExist
LstatExists(files, path) == path \in DOMAIN files

\* os.Lstat(path).IsDir()
LstatIsDir(files, path) == path \in DOMAIN files /\ files[path].type = "dir"

\* os.Stat(path) follows a symlink at the path
StatPath(files, path) ==
    IF path \in DOMAIN files /\ files[path].type = "symlink"
    THEN files[path].target
    ELSE path

\* os.Stat(path): err is not IsNotExist
StatExists(files, path) == StatPath(files, path) \in DOMAIN files

\* The process may create and delete entries in the directory: it is above a
\* first component, or the owner's write bit is set, or the process is root
CanWriteIn(files, dir) ==
    \/ privileged
    \/ Len(dir) = 0
    \/ (dir \in DOMAIN files /\ "uw" \in files[dir].mode)

\* The process may open the file or list the directory
CanRead(node) == privileged \/ "ur" \in node.mode

\* os.Remove(path): a file, a symlink or an empty directory goes; the error
\* of any other case is dropped by every caller
osRemove(files, path) ==
    IF /\ path \in DOMAIN files
       /\ Children(files, path) = {}
       /\ CanWriteIn(files, Parent(path))
    THEN Without(files, {path})
    ELSE files

\* os.RemoveAll(path): the directories whose entries cannot be unlinked
StuckDirs(files, path) ==
    {d \in ({path} \cup Descendants(files, path)) \cap DOMAIN files :
        /\ files[d].type = "dir"
        /\ Children(files, d) # {}
        /\ ~CanWriteIn(files, d)}

\* os.RemoveAll(path): what is left, that is, the stuck directories, their
\* entries and the directories above them; ok when nothing is left
osRemoveAll(files, path) ==
    LET tree == ({path} \cup Descendants(files, path)) \cap DOMAIN files
        stuck == StuckDirs(files, path)
        kept == {p \in tree :
                    \/ Parent(p) \in stuck
                    \/ \E d \in stuck : Len(p) <= Len(d) /\ SubSeq(d, 1, Len(p)) = p}
    IN [files |-> Without(files, tree \ kept), ok |-> kept = {}]

\* os.Symlink(target, path): fails when something is at the path; the error
\* is dropped by every caller
osSymlink(files, target, path) ==
    IF path \in DOMAIN files THEN files
    ELSE WithNode(files, path, SymlinkNode(target))

\* os.MkdirAll(path, mode): nothing to do for a directory that exists, else
\* the missing directories above it and the directory itself are made, each
\* with mode &^ umask
RECURSIVE osMkdirAll(_, _, _)
osMkdirAll(files, path, mode) ==
    IF path = << >> \/ LstatIsDir(files, StatPath(files, path))
    THEN [files |-> files, ok |-> TRUE]
    ELSE IF path \in DOMAIN files
    THEN [files |-> files, ok |-> FALSE]
    ELSE LET above == osMkdirAll(files, Parent(path), mode) IN
         IF ~above.ok THEN above
         ELSE IF ~CanWriteIn(above.files, Parent(path))
         THEN [files |-> above.files, ok |-> FALSE]
         ELSE [files |-> WithNode(above.files, path, DirNode(mode \ umask)),
               ok |-> TRUE]

\* The mode os.Create gives a new file: 0666 &^ umask
CreateMode == {"ur", "uw", "gw"} \ umask

\* copiedFileMode without the os.Chmod
copiedFileMode_NoChmod(srcMode) == CreateMode

\* CopyFile: si, err := os.Stat(src); os.Chmod(dst, si.Mode())
copiedFileMode(srcMode) == srcMode

\* CopyFile(src, dst): os.Open, os.Create, io.Copy, Sync, Stat and Chmod
CopyFile(files, src, dst) ==
    IF ~(src \in DOMAIN files /\ CanRead(files[src]))
    THEN [files |-> files, ok |-> FALSE]
    ELSE IF ~CanWriteIn(files, Parent(dst))
    THEN [files |-> files, ok |-> FALSE]
    ELSE [files |-> WithNode(files, dst,
                        FileNode(copiedFileMode(files[src].mode), files[src].data)),
          ok |-> TRUE]

\* os.ReadDir sorts the entries by name
NameOrder == <<"d", "f", "g", "l">>

\* CopyDir(src, dst), and its loop over the entries named names of src
RECURSIVE CopyDir(_, _, _)
RECURSIVE CopyEntries(_, _, _, _)
CopyDir(files, src, dst) ==
    IF ~StatExists(files, src) \/ ~LstatIsDir(files, StatPath(files, src))
    THEN [files |-> files, ok |-> FALSE]
    ELSE IF StatExists(files, dst)
    THEN [files |-> files, ok |-> FALSE]
    ELSE LET made == osMkdirAll(files, dst, files[StatPath(files, src)].mode) IN
         IF ~made.ok THEN made
         ELSE IF ~CanRead(files[StatPath(files, src)])
         THEN [files |-> made.files, ok |-> FALSE]
         ELSE CopyEntries(made.files, src, dst,
                  SelectSeq(NameOrder,
                            LAMBDA name : Append(src, name) \in DOMAIN files))

CopyEntries(files, src, dst, names) ==
    IF names = << >> THEN [files |-> files, ok |-> TRUE]
    ELSE LET srcPath == Append(src, Head(names))
             dstPath == Append(dst, Head(names))
             done == CASE files[srcPath].type = "dir" ->
                             CopyDir(files, srcPath, dstPath)
                       [] files[srcPath].type = "symlink" ->
                             [files |-> files, ok |-> TRUE]
                       [] OTHER -> CopyFile(files, srcPath, dstPath)
         IN IF ~done.ok THEN done
            ELSE CopyEntries(done.files, src, dst, Tail(names))

\* configureNewSteamCompatData: newCompatData
newCompatDataOf(configuration) ==
    JoinPath(NewCompatDataBase, MapGet(configuration.props, "name"))

\* configureNewSteamCompatData: the shortcut is removed when something is at
\* its path, and linked to newCompatDataBase
relinkShortcut(files) ==
    osSymlink(IF LstatExists(files, CompatDataBaseShortcut)
              THEN osRemove(files, CompatDataBaseShortcut)
              ELSE files,
              NewCompatDataBase, CompatDataBaseShortcut)

\* configureNewSteamCompatData: the first branch is taken
copiesOldToNew(files, newCompatData) ==
    /\ ~StatExists(files, newCompatData)
    /\ LstatExists(files, OldCompatData)
    /\ LstatIsDir(files, OldCompatData)

\* configureNewSteamCompatData: the second branch is taken
dropsOld(files, newCompatData) ==
    /\ StatExists(files, newCompatData)
    /\ LstatExists(files, OldCompatData)
    /\ LstatIsDir(files, OldCompatData)

\* configuration.Environment["STEAM_COMPAT_DATA_PATH"] = newCompatData
withCompatDataPath(configuration, newCompatData) ==
    [configuration EXCEPT
        !.Environment = MapSet(configuration.Environment,
                               "STEAM_COMPAT_DATA_PATH", PathString(newCompatData))]

\* configureNewSteamCompatData(configuration, oldCompatData, homeDir,
\* newCompatDataBase) as one step: the filesystem and the configuration it
\* leaves, and whether it returns (log.Fatalf in copyOldCompatDataToNew ends
\* the process instead)
configureNewSteamCompatData(files, configuration) ==
    LET newCompatData == newCompatDataOf(configuration)
        linked == relinkShortcut(files)
        copied == CopyDir(linked, OldCompatData, newCompatData)
        removed == osRemoveAll(copied.files, OldCompatData)
        done(after) == [files |-> osSymlink(after, newCompatData, OldCompatData),
                        configuration |-> withCompatDataPath(configuration,
                                                             newCompatData),
                        returns |-> TRUE]
    IN IF copiesOldToNew(linked, newCompatData)
       THEN IF ~copied.ok
            THEN [files |-> copied.files, configuration |-> configuration,
                  returns |-> FALSE]
            ELSE IF ~removed.ok
            THEN [files |-> removed.files, configuration |-> configuration,
                  returns |-> FALSE]
            ELSE done(removed.files)
       ELSE IF dropsOld(linked, newCompatData)
       THEN done(osRemoveAll(linked, OldCompatData).files)
       ELSE done(osRemove(linked, OldCompatData))

\* configureNewSteamCompatData through copyOldCompatDataToNew: the copy or the
\* removal fails and log.Fatalf ends the process
MigrateCopyFatal ==
    /\ pc = "migrate"
    /\ LET newCompatData == newCompatDataOf(userConfiguration)
           linked == relinkShortcut(fs)
           copied == CopyDir(linked, OldCompatData, newCompatData)
           removed == osRemoveAll(copied.files, OldCompatData)
       IN /\ copiesOldToNew(linked, newCompatData)
          /\ ~copied.ok \/ ~removed.ok
          /\ fs' = IF ~copied.ok THEN copied.files ELSE removed.files
    /\ pc' = "fatal"
    /\ UNCHANGED <<userConfiguration, fsBefore, umask, privileged>>
    /\ UNCHANGED notMigrate

\* configureNewSteamCompatData through copyOldCompatDataToNew: the tree is
\* copied, the old directory removed and linked to the new one
MigrateCopy ==
    /\ pc = "migrate"
    /\ LET newCompatData == newCompatDataOf(userConfiguration)
           linked == relinkShortcut(fs)
           copied == CopyDir(linked, OldCompatData, newCompatData)
           removed == osRemoveAll(copied.files, OldCompatData)
       IN /\ copiesOldToNew(linked, newCompatData)
          /\ copied.ok /\ removed.ok
          /\ fs' = osSymlink(removed.files, newCompatData, OldCompatData)
          /\ userConfiguration' = withCompatDataPath(userConfiguration, newCompatData)
    /\ pc' = "migrated"
    /\ UNCHANGED <<fsBefore, umask, privileged>>
    /\ UNCHANGED notMigrate

\* configureNewSteamCompatData: both directories exist; the old one is
\* removed (the error dropped) and linked to the new one
MigrateDropOld ==
    /\ pc = "migrate"
    /\ LET newCompatData == newCompatDataOf(userConfiguration)
           linked == relinkShortcut(fs)
       IN /\ dropsOld(linked, newCompatData)
          /\ fs' = osSymlink(osRemoveAll(linked, OldCompatData).files,
                             newCompatData, OldCompatData)
          /\ userConfiguration' = withCompatDataPath(userConfiguration, newCompatData)
    /\ pc' = "migrated"
    /\ UNCHANGED <<fsBefore, umask, privileged>>
    /\ UNCHANGED notMigrate

\* configureNewSteamCompatData: the old path is absent or no directory; what
\* is there is removed and the path linked to the new directory
MigrateLink ==
    /\ pc = "migrate"
    /\ LET newCompatData == newCompatDataOf(userConfiguration)
           linked == relinkShortcut(fs)
       IN /\ ~copiesOldToNew(linked, newCompatData)
          /\ ~dropsOld(linked, newCompatData)
          /\ fs' = osSymlink(osRemove(linked, OldCompatData),
                             newCompatData, OldCompatData)
          /\ userConfiguration' = withCompatDataPath(userConfiguration, newCompatData)
    /\ pc' = "migrated"
    /\ UNCHANGED <<fsBefore, umask, privileged>>
    /\ UNCHANGED notMigrate

\* The modes of the files and directories of the old tree
FileModes == {{"ur", "uw"}, {"ur"}, {"ur", "uw", "gw"}, {"uw"}}
DirModes == {{"ur", "uw"}, {"ur"}}

\* The old trees: a file f, a directory d with a file g, a symlink l, each
\* there or not
OldTrees ==
    { (OldCompatData :> DirNode({"ur", "uw"}))
      @@ (IF f = {} THEN << >>
          ELSE (Append(OldCompatData, "f") :> FileNode(CHOOSE m \in f : TRUE, "data-f")))
      @@ (IF d = {} THEN << >>
          ELSE (Append(OldCompatData, "d") :> DirNode(CHOOSE m \in d : TRUE)))
      @@ (IF d = {} \/ g = {} THEN << >>
          ELSE (Append(Append(OldCompatData, "d"), "g")
                    :> FileNode(CHOOSE m \in g : TRUE, "data-g")))
      @@ (IF l THEN (Append(OldCompatData, "l") :> SymlinkNode(<<"/elsewhere">>))
          ELSE << >>) :
      f \in {{}} \cup {{m} : m \in FileModes},
      d \in {{}} \cup {{m} : m \in DirModes},
      g \in {{}} \cup {{m} : m \in FileModes},
      l \in BOOLEAN }

\* What is at the old path: a tree, a file, a symlink or nothing
OldStates ==
    OldTrees
    \cup { (OldCompatData :> FileNode({"ur", "uw"}, "stray")),
           (OldCompatData :> SymlinkNode(JoinPath(NewCompatDataBase, "game"))),
           (OldCompatData :> SymlinkNode(<<"/elsewhere">>)),
           << >> }

\* What is at the new path: nothing, not even the base directory; the base
\* directory alone; or a profile directory with a file
NewStates ==
    { << >>,
      (NewCompatDataBase :> DirNode({"ur", "uw"})),
      (NewCompatDataBase :> DirNode({"ur", "uw"}))
      @@ (JoinPath(NewCompatDataBase, "game") :> DirNode({"ur", "uw"}))
      @@ (Append(JoinPath(NewCompatDataBase, "game"), "f")
              :> FileNode({"ur", "uw"}, "new-f")) }

\* What is at the shortcut's path
ShortcutStates ==
    { << >>, (CompatDataBaseShortcut :> SymlinkNode(<<"/elsewhere">>)) }

InitMigrate ==
    /\ pc = "migrate"
    /\ userConfiguration \in
           { [defaultConfiguration EXCEPT !.props = props] :
             props \in { ("name" :> "game" @@ "id" :> "42" @@ "steam-appid" :> "42"),
                         EmptyMap } }
    /\ \E old \in OldStates, new \in NewStates, shortcut \in ShortcutStates :
          fs = old @@ new @@ shortcut
    /\ fsBefore = fs
    /\ umask \in {{}, {"gw"}}
    /\ privileged \in BOOLEAN
    /\ IdleArgv
    /\ IdleMerge
    /\ nonFlagArgs = << >>
    /\ command = << >>
    /\ binaries = {}
    /\ steamCompatSession = TRUE
    /\ protonStat = "absent"
    /\ createdDirs = {}
    /\ configBeforeAssembly = defaultConfiguration
    /\ IdleLaunch
    /\ IdleTail
    /\ IdleDetect
    /\ IdleNames

NextMigrate ==
    \/ MigrateCopyFatal
    \/ MigrateCopy
    \/ MigrateDropOld
    \/ MigrateLink

SpecMigrate == InitMigrate /\ [][NextMigrate]_vars

---------------------------------------------------------------------------
(* Claims about the migration, under SpecMigrate. *)

\* The scenario of C7: before the migration the old path was a directory with
\* at least one regular file below it, and nothing was at the new path
C7_Scenario ==
    /\ LstatIsDir(fsBefore, OldCompatData)
    /\ \E p \in Descendants(fsBefore, OldCompatData) : fsBefore[p].type = "file"
    /\ ~StatExists(fsBefore, newCompatDataOf(userConfiguration))

\* The path below the new directory with the same relative path as p below
\* the old one
C7_Moved(p) ==
    newCompatDataOf(userConfiguration)
    \o SubSeq(p, Len(OldCompatData) + 1, Len(p))

\* C7: in the scenario, when configureNewSteamCompatData has returned, no
\* directory is at the old path, the old path is a symlink to the new
\* directory, and every regular file of the old tree is under the new
\* directory at the same relative path, with its permission bits and data.
C7_MigrationMovesTree ==
    (pc = "migrated" /\ C7_Scenario)
    => /\ ~LstatIsDir(fs, OldCompatData)
       /\ LstatExists(fs, OldCompatData)
       /\ fs[OldCompatData] = SymlinkNode(newCompatDataOf(userConfiguration))
       /\ LstatIsDir(fs, newCompatDataOf(userConfiguration))
       /\ \A p \in Descendants(fsBefore, OldCompatData) :
             fsBefore[p].type = "file"
             => /\ C7_Moved(p) \in DOMAIN fs
                /\ fs[C7_Moved(p)].type = "file"
                /\ fs[C7_Moved(p)].mode = fsBefore[p].mode
                /\ fs[C7_Moved(p)].data = fsBefore[p].data

\* C7 witness: a tree with a read-only file, a file in a subdirectory and a
\* group-writable file under a umask that clears the bit has been migrated
C7_Witness ==
    /\ pc = "migrated"
    /\ C7_Scenario
    /\ umask = {"gw"}
    /\ ~privileged
    /\ Append(OldCompatData, "f") \in DOMAIN fsBefore
    /\ fsBefore[Append(OldCompatData, "f")].mode = {"ur", "uw", "gw"}
    /\ Append(Append(OldCompatData, "d"), "g") \in DOMAIN fsBefore
    /\ fsBefore[Append(Append(OldCompatData, "d"), "g")].mode = {"ur"}

\* C14: from every starting state of the legacy path and the new directory,
\* when configureNewSteamCompatData returns the legacy path is a symlink to
\* the new profile path and Environment["STEAM_COMPAT_DATA_PATH"] is the new
\* profile path, and a second run on that state changes neither the
\* filesystem nor that entry.
C14_LinkedAndIdempotent ==
    pc = "migrated" =>
       LET newCompatData == newCompatDataOf(userConfiguration)
           again == configureNewSteamCompatData(fs, userConfiguration)
       IN /\ LstatExists(fs, OldCompatData)
          /\ fs[OldCompatData] = SymlinkNode(newCompatData)
          /\ MapGet(userConfiguration.Environment, "STEAM_COMPAT_DATA_PATH")
                = PathString(newCompatData)
          /\ again.returns
          /\ again.files = fs
          /\ MapGet(again.configuration.Environment, "STEAM_COMPAT_DATA_PATH")
                = PathString(newCompatData)

---------------------------------------------------------------------------
(* The tail-line reader. *)

\* ReadLastLine: the loop, from the byte at offset pos backwards.  ReadAt
\* fails at a negative offset (and on an empty file), and the function then
\* returns "", nil
RECURSIVE readBackwards(_, _, _, _)
readBackwards(content, pos, firstByte, lastLine) ==
    IF pos < 0 \/ pos >= Len(content)
    THEN [line |-> "", err |-> FALSE]
    ELSE LET char == SubSeq(content, pos + 1, pos + 1) IN
         IF char = "\n" /\ firstByte
         THEN readBackwards(content, pos - 1, FALSE, lastLine)
         ELSE IF char = "\n"
         THEN [line |-> lastLine, err |-> FALSE]
         ELSE readBackwards(content, pos - 1, firstByte, char \o lastLine)

\* ReadLastLine(filename)
ReadLastLine(file) ==
    IF ~file.exists THEN [line |-> "", err |-> TRUE]
    ELSE readBackwards(file.doc, Len(file.doc) - 1, TRUE, "")

\* lastLine, err := ReadLastLine(wineTricksLogPath)
ReadLastLineCall ==
    /\ pc = "tail"
    /\ tailResult' = ReadLastLine(tailFile)
    /\ pc' = "tail-read"
    /\ UNCHANGED <<userConfiguration, tailFile>>
    /\ UNCHANGED notTail

\* The bytes of the files read, and the files
TailChars == {"a", "b", "\n"}
TailFiles == {NoFile} \cup {FileWith(content) : content \in Strs(TailChars, MaxFileLen)}

InitTail ==
    /\ pc = "tail"
    /\ userConfiguration = defaultConfiguration
    /\ tailFile \in TailFiles
    /\ tailResult = [line |-> "", err |-> FALSE]
    /\ IdleArgv
    /\ IdleMerge
    /\ IdleCommand
    /\ IdleLaunch
    /\ IdleMigrate
    /\ IdleDetect
    /\ IdleNames

NextTail == ReadLastLineCall

SpecTail == InitTail /\ [][NextTail]_vars

---------------------------------------------------------------------------
(* Claims about the tail-line reader, under SpecTail. *)

\* The position of the last "\n" of s, 0 when there is none
RECURSIVE C8_LastNewline(_, _)
C8_LastNewline(s, i) ==
    IF i = 0 THEN 0
    ELSE IF SubSeq(s, i, i) = "\n" THEN i
    ELSE C8_LastNewline(s, i - 1)

\* The line before the trailing newline of content: the text between the
\* newline before it (or the start of the file) and the trailing newline
C8_LineBeforeTrailingNewline(content) ==
    LET body == SubSeq(content, 1, Len(content) - 1) IN
    SubSeq(body, C8_LastNewline(body, Len(body)) + 1, Len(body))

\* C8: for every file whose content ends with a newline, also a file of one
\* line, ReadLastLine returns the line before that trailing newline.
C8_LastLineBeforeTrailingNewline ==
    ( /\ pc = "tail-read"
      /\ tailFile.exists
      /\ Len(tailFile.doc) > 0
      /\ SubSeq(tailFile.doc, Len(tailFile.doc), Len(tailFile.doc)) = "\n" )
    => /\ ~tailResult.err
       /\ tailResult.line = C8_LineBeforeTrailingNewline(tailFile.doc)

---------------------------------------------------------------------------
(* Identifier detection under a Steam compat session.                      *)
(***************************************************************************)

STEAMAPPID_FILENAME == "steam_appid.txt"

\* strings.Join(elems, sep)
RECURSIVE Join(_, _)
Join(elems, sep) ==
    IF elems = << >> THEN ""
    ELSE IF Len(elems) = 1 THEN elems[1]
    ELSE elems[1] \o sep \o Join(Tail(elems), sep)

\* main: nonFlagsArgsString
nonFlagsArgsString == Join(nonFlagArgs, " ")

\* s holds the literal lit at position i (1-based)
HasAt(s, i, lit) ==
    /\ i >= 1
    /\ i + Len(lit) - 1 <= Len(s)
    /\ SubSeq(s, i, i + Len(lit) - 1) = lit

\* [0-9]
IsDigit(char) == char \in {"0", "1", "2", "3", "4", "5", "6", "7", "8", "9"}

\* [0-9]+ from position i, greedy: the position of the last digit of the run,
\* i - 1 when the character at i is no digit
RECURSIVE DigitsEnd(_, _)
DigitsEnd(s, i) ==
    IF i <= Len(s) /\ IsDigit(SubSeq(s, i, i)) THEN DigitsEnd(s, i + 1) ELSE i - 1

\* A FindStringSubmatch result: nil, or the first group
NoMatch == [matched |-> FALSE, group |-> ""]
Match(group) == [matched |-> TRUE, group |-> group]

\* The text regexp "AppId=([0-9]+)" matches first
AppIdLiteral == "AppId="

\* steamAppidRegex.FindStringSubmatch(s): the leftmost match from position i on
RECURSIVE steamAppidRegexFrom(_, _)
steamAppidRegexFrom(s, i) ==
    IF i > Len(s) THEN NoMatch
    ELSE LET first == i + Len(AppIdLiteral) IN
         IF HasAt(s, i, AppIdLiteral) /\ DigitsEnd(s, first) >= first
         THEN Match(SubSeq(s, first, DigitsEnd(s, first)))
         ELSE steamAppidRegexFrom(s, i + 1)

steamAppidRegex(s) == steamAppidRegexFrom(s, 1)

\* The text regexp "waitforexitandrun\ (\/.+(\.exe|\.bat))" matches first; the
\* group starts at its last character
WaitForExitLiteral == "waitforexitandrun /"
ExeSuffixes == {".exe", ".bat"}

\* The positions where (\.exe|\.bat) can match after ".+" has taken at least
\* one character following the "/" at position slash
ExeSuffixPositions(s, slash) ==
    {q \in (slash + 2)..Len(s) : \E suffix \in ExeSuffixes : HasAt(s, q, suffix)}

\* The largest position of a set of positions: ".+" is greedy
Last(positions) == CHOOSE q \in positions : \A r \in positions : r <= q

\* gameExeRegex.FindStringSubmatch(s): the leftmost match from position i on,
\* its group from the "/" to the end of the last suffix (s holds no newline)
RECURSIVE gameExeRegexFrom(_, _)
gameExeRegexFrom(s, i) ==
    IF i > Len(s) THEN NoMatch
    ELSE LET slash == i + Len(WaitForExitLiteral) - 1 IN
         IF HasAt(s, i, WaitForExitLiteral) /\ ExeSuffixPositions(s, slash) # {}
         THEN Match(SubSeq(s, slash, Last(ExeSuffixPositions(s, slash)) + 3))
         ELSE gameExeRegexFrom(s, i + 1)

gameExeRegex(s) == gameExeRegexFrom(s, 1)

\* The position of the last "/" of s at or before i, 0 when there is none
RECURSIVE LastSlash(_, _)
LastSlash(s, i) ==
    IF i = 0 THEN 0
    ELSE IF SubSeq(s, i, i) = "/" THEN i
    ELSE LastSlash(s, i - 1)

\* filepath.Join(filepath.Dir(gameExec), STEAMAPPID_FILENAME), for a clean
\* absolute gameExec: the file name replaces the last element
appIdFileOf(gameExec) ==
    SubSeq(gameExec, 1, LastSlash(gameExec, Len(gameExec))) \o STEAMAPPID_FILENAME

\* bufio.ScanLines: dropCR
dropCR(line) ==
    IF Len(line) > 0 /\ SubSeq(line, Len(line), Len(line)) = "\r"
    THEN SubSeq(line, 1, Len(line) - 1)
    ELSE line

\* bufio.Scanner with bufio.ScanLines: the tokens of doc, that is, the text
\* before each newline and the text after the last one if there is any, each
\* without a trailing carriage return
ScanLines(doc) ==
    LET pieces == Split(doc, "\n")
        whole == IF pieces[Len(pieces)] = ""
                 THEN SubSeq(pieces, 1, Len(pieces) - 1)
                 ELSE pieces
    IN [k \in 1..Len(whole) |-> dropCR(whole[k])]

\* enrichSteamAppIdByExe: the loop over scanner.Scan() assigns both
\* properties for every line, in order
RECURSIVE scanIntoProps(_, _)
scanIntoProps(props, lines) ==
    IF lines = << >> THEN props
    ELSE scanIntoProps(
             MapSet(MapSet(props, "steam-appid", Head(lines)), "id", Head(lines)),
             Tail(lines))

\* enrichSteamAppIdByExe: the side-car file the function goes on to open;
\* matched is false when props has "steam-appid", the regexp finds no
\* executable or nothing is at the path
sidecarOf(configuration) ==
    LET found == gameExeRegex(nonFlagsArgsString) IN
    IF /\ ~MapHas(configuration.props, "steam-appid")
       /\ found.matched
       /\ appIdFileOf(found.group) \in DOMAIN sidecarFiles
    THEN Match(appIdFileOf(found.group))
    ELSE NoMatch

\* enrichSteamAppIdByExe(&userConfiguration, nonFlagsArgsString): os.Open
\* fails and log.Fatalf ends the process
EnrichSteamAppIdByExeFatal ==
    /\ pc = "detect-exe"
    /\ sidecarOf(userConfiguration).matched
    /\ ~sidecarFiles[sidecarOf(userConfiguration).group].readable
    /\ pc' = "fatal"
    /\ UNCHANGED <<userConfiguration, varsDetect>>
    /\ UNCHANGED notDetect

\* enrichSteamAppIdByExe(&userConfiguration, nonFlagsArgsString)
EnrichSteamAppIdByExe ==
    /\ pc = "detect-exe"
    /\ LET sidecar == sidecarOf(userConfiguration) IN
       IF sidecar.matched
       THEN /\ sidecarFiles[sidecar.group].readable
            /\ userConfiguration' =
                  [userConfiguration EXCEPT
                      !.props = scanIntoProps(userConfiguration.props,
                                    ScanLines(sidecarFiles[sidecar.group].doc))]
       ELSE UNCHANGED userConfiguration
    /\ pc' = "detect-args"
    /\ UNCHANGED varsDetect
    /\ UNCHANGED notDetect

\* enrichSteamAppIdByArgs(&userConfiguration, nonFlagsArgsString)
EnrichSteamAppIdByArgs ==
    /\ pc = "detect-args"
    /\ LET found == steamAppidRegex(nonFlagsArgsString) IN
       userConfiguration' =
          IF ~MapHas(userConfiguration.props, "steam-appid") /\ found.matched
          THEN [userConfiguration EXCEPT
                  !.props = MapSet(MapSet(userConfiguration.props,
                                "steam-appid", found.group), "id", found.group)]
          ELSE userConfiguration
    /\ pc' = "detected"
    /\ UNCHANGED varsDetect
    /\ UNCHANGED notDetect

\* The words of the command lines Steam starts the launcher with
ArgWords == {"AppId=42", "AppId=x", "waitforexitandrun", "/g/a.exe", "/b.bat", "-w"}

\* A side-car file
Sidecar(doc, readable) == [doc |-> doc, readable |-> readable]

\* The side-car files: none, or one next to /g/a.exe
SidecarDocs == {"", "7", "7\n", "7\r\n", "7\n8\n", "\n7", "7\n\n"}
SidecarStates ==
    {EmptyMap}
    \cup {("/g/" \o STEAMAPPID_FILENAME) :> Sidecar(doc, TRUE) : doc \in SidecarDocs}
    \cup {("/g/" \o STEAMAPPID_FILENAME) :> Sidecar("7\n", FALSE),
          ("/" \o STEAMAPPID_FILENAME) :> Sidecar("9\n", TRUE)}

\* The properties the flags have set when the detection starts
PropsBeforeDetection ==
    {EmptyMap, "id" :> "mine", "steam-appid" :> "5" @@ "id" :> "5", "name" :> "n"}

InitDetect ==
    /\ pc = "detect-exe"
    /\ nonFlagArgs \in SeqsUpTo(ArgWords, MaxWords)
    /\ sidecarFiles \in SidecarStates
    /\ userConfiguration \in
           {[defaultConfiguration EXCEPT !.props = props] :
               props \in PropsBeforeDetection}
    /\ configBeforeDetection = userConfiguration
    /\ command = << >>
    /\ binaries = {}
    /\ steamCompatSession = TRUE
    /\ protonStat = "absent"
    /\ createdDirs = {}
    /\ configBeforeAssembly = defaultConfiguration
    /\ IdleArgv
    /\ IdleMerge
    /\ IdleLaunch
    /\ IdleMigrate
    /\ IdleTail
    /\ IdleNames

NextDetect ==
    \/ EnrichSteamAppIdByExeFatal
    \/ EnrichSteamAppIdByExe
    \/ EnrichSteamAppIdByArgs

SpecDetect == InitDetect /\ [][NextDetect]_vars

---------------------------------------------------------------------------
(* Claims about the identifier detection, under SpecDetect. *)

\* An identifier is known: the properties hold "id" or "steam-appid"
C13_Known(props) == MapHas(props, "id") \/ MapHas(props, "steam-appid")

\* The lines of the side-car file next to the executable of the command
\* line, none when there is no such executable or file
C13_SidecarLines ==
    LET found == gameExeRegex(nonFlagsArgsString) IN
    IF found.matched /\ appIdFileOf(found.group) \in DOMAIN sidecarFiles
    THEN ScanLines(sidecarFiles[appIdFileOf(found.group)].doc)
    ELSE << >>

\* C13: each strategy is applied only when no identifier is known and the
\* first match wins: an identifier that was known before the detection (for
\* instance from --id=...) is kept, else the first line of the side-car file
\* is the identifier, else the digits after AppId= of the command line, and
\* an identifier found by the first strategy is kept by the second.
C13_FirstMatchWins ==
    pc = "detected" =>
       LET before == configBeforeDetection.props
           after == userConfiguration.props
           byArgs == steamAppidRegex(nonFlagsArgsString)
       IN IF C13_Known(before)
          THEN /\ MapHas(before, "id") => after["id"] = before["id"]
          ELSE IF C13_SidecarLines # << >>
          THEN MapGet(after, "id") = C13_SidecarLines[1]
          ELSE IF byArgs.matched
          THEN MapGet(after, "id") = byArgs.group
          ELSE after = before

---------------------------------------------------------------------------
(* The game-name cache.                                                    *)
(*                                                                         *)
(* Every launch under a compat session that knows a steam-appid calls      *)
(* findSteamGameName once.  The launches are processes of their own: they  *)
(* share the cache folder and nothing else, and one launch can be between  *)
(* its os.ReadFile and its os.WriteFile, waiting for the remote service,   *)
(* while another runs.  os.ReadFile opens the file and reads until a read  *)
(* gives no bytes; os.WriteFile opens the file (creating or truncating it) *)
(* and then writes; each of these is a step.  A reply of the remote        *)
(* service is what http.Get and io.ReadAll hand back: an error, or a body; *)
(* a body is JSON or not, and JSON is null, an object with its members in  *)
(* the order of the text, or another value.                                *)
(***************************************************************************)

\* main: appNamesCacheFolder
AppNamesCacheFolder == "/home/u/.cache/plauncher/appnames"

\* findSteamGameName: cacheFile
cacheFileOf(appid) == PathJoin(AppNamesCacheFolder, appid)

\* A file of the cache folder
CacheFile(doc, readable) == [doc |-> doc, readable |-> readable]

\* os.ReadFile, first part: os.Open(path): whether err is IsNotExist, and
\* whether the file is open for reading
osOpen(files, path) ==
    IF path \notin DOMAIN files THEN [notExist |-> TRUE, open |-> FALSE]
    ELSE [notExist |-> FALSE, open |-> files[path].readable]

\* os.ReadFile, the loop: one f.Read at the offset of the bytes read so far,
\* of the file as it is by now; no bytes is io.EOF
osRead(files, path, offset) ==
    SubSeq(files[path].doc, offset + 1, Len(files[path].doc))

\* os.WriteFile, first half: os.OpenFile(path, O_WRONLY|O_CREATE|O_TRUNC, perm)
osOpenTruncate(files, path) ==
    MapSet(files, path,
           CacheFile("", IF path \in DOMAIN files THEN files[path].readable
                         ELSE TRUE))

\* os.WriteFile, second half: f.Write(data) at offset 0 of the file as it is
\* by now
osWriteAtStart(files, path, data) ==
    LET doc == files[path].doc IN
    [files EXCEPT ![path].doc = data \o SubSeq(doc, Len(data) + 1, Len(doc))]

\* cacheHit if the cache file were never found
cacheHit_Never(files, appid) == FALSE

\* findSteamGameName: !os.IsNotExist(err) after os.ReadFile(cacheFile)
cacheHit(files, appid) == ~osOpen(files, cacheFileOf(appid)).notExist

\* A JSON value of a member (its type and its text), and the bodies: an
\* object with its members <<key, value>> in order, null, another JSON value
\* (array, string, number, boolean), and a text that is no JSON
JsonValue(type, text) == [t |-> type, v |-> text]
JsonObject(members) == [valid |-> TRUE, kind |-> "object", members |-> members]
JsonNull == [valid |-> TRUE, kind |-> "null", members |-> << >>]
JsonOther == [valid |-> TRUE, kind |-> "other", members |-> << >>]
NotJson == [valid |-> FALSE, kind |-> "none", members |-> << >>]

\* encoding/json matches the key of a member to a field's tag without regard
\* to case (the tags "appid" and "name" fold with ASCII letters only)
RECURSIVE FoldKey(_)
FoldKey(key) ==
    LET upper == "ABCDEFGHIJKLMNOPQRSTUVWXYZ"
        lower == "abcdefghijklmnopqrstuvwxyz"
        char == SubSeq(key, 1, 1)
        at == {i \in 1..Len(upper) : SubSeq(upper, i, i) = char}
    IN IF key = "" THEN ""
       ELSE (IF at = {} THEN char
             ELSE LET i == CHOOSE i \in at : TRUE IN SubSeq(lower, i, i))
            \o FoldKey(SubSeq(key, 2, Len(key)))

\* The digits of s from position i on are not above those of limit (same
\* length): the comparison of two decimal numbers of equal length
RECURSIVE NotAbove(_, _, _)
NotAbove(s, limit, i) ==
    LET digits == "0123456789"
        rank(char) == CHOOSE r \in 1..Len(digits) : SubSeq(digits, r, r) = char
    IN IF i > Len(s) THEN TRUE
       ELSE LET a == rank(SubSeq(s, i, i))
                b == rank(SubSeq(limit, i, i))
            IN IF a < b THEN TRUE
               ELSE IF a > b THEN FALSE
               ELSE NotAbove(s, limit, i + 1)

\* strconv.ParseInt(text, 10, 64) of the text of a JSON number succeeds: an
\* optional "-" and digits only (no fraction, no exponent), within the
\* magnitudes of an int of 64 bits
ParsesAsInt(text) ==
    LET negative == HasAt(text, 1, "-")
        digits == IF negative THEN SubSeq(text, 2, Len(text)) ELSE text
        limit == IF negative THEN "9223372036854775808"
                 ELSE "9223372036854775807"
    IN /\ Len(digits) >= 1
       /\ DigitsEnd(digits, 1) = Len(digits)
       /\ \/ Len(digits) < Len(limit)
          \/ Len(digits) = Len(limit) /\ NotAbove(digits, limit, 1)

\* json.Unmarshal, one member of the object: "appid" takes an integer,
\* "name" a string, null leaves the field as it is, another type is an
\* UnmarshalTypeError (kept, the decoding goes on); other keys are skipped
decodeMember(response, member) ==
    LET key == FoldKey(member[1])
        value == member[2]
    IN IF value.t = "null" \/ key \notin {"appid", "name"} THEN response
       ELSE IF key = "appid"
       THEN IF value.t = "number" /\ ParsesAsInt(value.v) THEN response
            ELSE [response EXCEPT !.err = TRUE]
       ELSE IF value.t = "string" THEN [response EXCEPT !.Name = value.v]
            ELSE [response EXCEPT !.err = TRUE]

RECURSIVE decodeMembers(_, _)
decodeMembers(response, members) ==
    IF members = << >> THEN response
    ELSE decodeMembers(decodeMember(response, Head(members)), Tail(members))

\* json.Unmarshal(body, &steamSpyResponse) into BasicSteamSpyResponse{}: a
\* text that is no JSON is a SyntaxError, null does nothing, a value that is
\* no object is an UnmarshalTypeError, and an object is decoded member by
\* member
jsonUnmarshal(body) ==
    IF ~body.valid THEN [err |-> TRUE, Name |-> ""]
    ELSE IF body.kind = "null" THEN [err |-> FALSE, Name |-> ""]
    ELSE IF body.kind # "object" THEN [err |-> TRUE, Name |-> ""]
    ELSE decodeMembers([err |-> FALSE, Name |-> ""], body.members)

\* One call of findSteamGameName, as the history keeps it: where the launch
\* is (outcome "reading" while os.ReadFile reads the cache file, "requesting"
\* after the miss, "writing" once the cache file is open for writing, else
\* how it ended), the name it holds, whether the cache file was
\* there when it ended, whether it opened the file for writing, and the calls
\* that had ended when it started
Lookup(appid, hit, remote, outcome, name, cachedAfter, opened, after) ==
    [appid |-> appid, hit |-> hit, remote |-> remote, outcome |-> outcome,
     name |-> name, cachedAfter |-> cachedAfter, opened |-> opened,
     after |-> after]

\* The call has ended, by a return or by log.Fatalf
Ended(lookup) == lookup.outcome \notin {"reading", "requesting", "writing"}

\* The calls of the history that have ended
EndedLookups == {k \in 1..Len(lookups) : Ended(lookups[k])}

\* enrichGameName: configuration.props["name"] of the launch
launchWith(appid, hasName, name) ==
    [defaultConfiguration EXCEPT
        !.props = ("steam-appid" :> appid @@ "id" :> appid)
                  @@ (IF hasName THEN "name" :> name ELSE EmptyMap)]

\* The identifiers looked up and the replies of the service
AppIds == {"42", "7"}
RemoteErrors == {"http.Get", "io.ReadAll"}
RemoteBodies ==
    { NotJson, JsonOther, JsonNull,
      JsonObject(<<<<"appid", JsonValue("number", "42")>>,
                   <<"name", JsonValue("string", "Game")>>>>),
      JsonObject(<<<<"name", JsonValue("string", "Other")>>>>),
      JsonObject(<<<<"Name", JsonValue("string", "Game")>>>>),
      JsonObject(<<<<"appid", JsonValue("number", "42")>>,
                   <<"name", JsonValue("null", "")>>>>),
      JsonObject(<<<<"appid", JsonValue("string", "42")>>,
                   <<"name", JsonValue("string", "Game")>>>>),
      JsonObject(<<<<"appid", JsonValue("number", "1.5")>>,
                   <<"name", JsonValue("string", "Game")>>>>),
      JsonObject(<<<<"name", JsonValue("number", "1")>>>>) }

\* The history with the call k ended: its outcome, its name and whether the
\* cache file is there
endLookup(k, outcome, name, files) ==
    [lookups EXCEPT ![k].outcome = outcome,
                    ![k].name = name,
                    ![k].cachedAfter = cacheFileOf(lookups[k].appid) \in DOMAIN files]

\* findSteamGameName(appid, cacheFolder) of a new launch: os.ReadFile opens
\* the cache file, which is there and can be read
FindNameOpenCached ==
    /\ pc = "lookup"
    /\ Len(lookups) < MaxLookups
    /\ \E appid \in AppIds :
          /\ osOpen(cacheFiles, cacheFileOf(appid)).open
          /\ lookups' = Append(lookups,
                            Lookup(appid, TRUE, FALSE, "reading", "", TRUE,
                                   FALSE, EndedLookups))
    /\ UNCHANGED <<pc, cacheFiles, userConfiguration>>
    /\ UNCHANGED notNames

\* findSteamGameName: os.ReadFile reads bytes of the cache file and goes on
\* reading
FindNameRead ==
    /\ pc = "lookup"
    /\ \E k \in 1..Len(lookups) :
          /\ lookups[k].outcome = "reading"
          /\ LET bytes == osRead(cacheFiles, cacheFileOf(lookups[k].appid),
                                Len(lookups[k].name))
             IN /\ bytes # ""
                /\ lookups' = [lookups EXCEPT ![k].name = @ \o bytes]
    /\ UNCHANGED <<pc, cacheFiles, userConfiguration>>
    /\ UNCHANGED notNames

\* findSteamGameName: the cache file is there, string(appName) is returned
\* and no request is made: os.ReadFile meets io.EOF and the bytes it read are
\* the name, or the file of a new launch cannot be opened (an error other
\* than IsNotExist) and the name is empty
FindNameInCache ==
    /\ pc = "lookup"
    /\ \/ \E k \in 1..Len(lookups) :
             /\ lookups[k].outcome = "reading"
             /\ osRead(cacheFiles, cacheFileOf(lookups[k].appid),
                       Len(lookups[k].name)) = ""
             /\ lookups' = endLookup(k, "returned", lookups[k].name, cacheFiles)
             /\ userConfiguration' = launchWith(lookups[k].appid, TRUE,
                                                lookups[k].name)
       \/ /\ Len(lookups) < MaxLookups
          /\ \E appid \in AppIds :
                /\ cacheHit(cacheFiles, appid)
                /\ ~osOpen(cacheFiles, cacheFileOf(appid)).open
                /\ lookups' = Append(lookups,
                                  Lookup(appid, TRUE, FALSE, "returned", "", TRUE,
                                         FALSE, EndedLookups))
                /\ userConfiguration' = launchWith(appid, TRUE, "")
    /\ UNCHANGED <<pc, cacheFiles>>
    /\ UNCHANGED notNames

\* findSteamGameName of a new launch: os.ReadFile reports IsNotExist, and the
\* launch goes on to http.Get
FindNameMiss ==
    /\ pc = "lookup"
    /\ Len(lookups) < MaxLookups
    /\ \E appid \in AppIds :
          /\ ~cacheHit(cacheFiles, appid)
          /\ lookups' = Append(lookups,
                            Lookup(appid, FALSE, TRUE, "requesting", "", FALSE,
                                   FALSE, EndedLookups))
    /\ UNCHANGED <<pc, cacheFiles, userConfiguration>>
    /\ UNCHANGED notNames

\* findSteamGameName: http.Get or io.ReadAll fails: log.Fatalf
FindNameRemoteFatal ==
    /\ pc = "lookup"
    /\ \E k \in 1..Len(lookups), failed \in RemoteErrors :
          /\ lookups[k].outcome = "requesting"
          /\ lookups' = endLookup(k, "fatal: " \o failed, "", cacheFiles)
          /\ userConfiguration' = launchWith(lookups[k].appid, FALSE, "")
    /\ UNCHANGED <<pc, cacheFiles>>
    /\ UNCHANGED notNames

\* findSteamGameName: json.Unmarshal fails: log.Fatalf
FindNameParseFatal ==
    /\ pc = "lookup"
    /\ \E k \in 1..Len(lookups), body \in RemoteBodies :
          /\ lookups[k].outcome = "requesting"
          /\ jsonUnmarshal(body).err
          /\ lookups' = endLookup(k, "fatal: json.Unmarshal", "", cacheFiles)
          /\ userConfiguration' = launchWith(lookups[k].appid, FALSE, "")
    /\ UNCHANGED <<pc, cacheFiles>>
    /\ UNCHANGED notNames

\* findSteamGameName: the reply is decoded and os.WriteFile opens the cache
\* file, creating or truncating it
FindNameOpenCache ==
    /\ pc = "lookup"
    /\ \E k \in 1..Len(lookups), body \in RemoteBodies :
          /\ lookups[k].outcome = "requesting"
          /\ ~jsonUnmarshal(body).err
          /\ cacheFiles' = osOpenTruncate(cacheFiles, cacheFileOf(lookups[k].appid))
          /\ lookups' = [lookups EXCEPT ![k].outcome = "writing",
                                        ![k].name = jsonUnmarshal(body).Name,
                                        ![k].opened = TRUE]
    /\ UNCHANGED <<pc, userConfiguration>>
    /\ UNCHANGED notNames

\* findSteamGameName: os.WriteFile fails: log.Fatalf; the file could not be
\* opened and nothing changed, or it was opened and f.Write stopped after
\* some of the bytes
FindNameWriteFatal ==
    /\ pc = "lookup"
    /\ \E k \in 1..Len(lookups) :
          /\ \/ /\ lookups[k].outcome = "requesting"
                /\ \E body \in RemoteBodies : ~jsonUnmarshal(body).err
                /\ cacheFiles' = cacheFiles
             \/ /\ lookups[k].outcome = "writing"
                /\ \E written \in 0..Len(lookups[k].name) :
                      cacheFiles' = osWriteAtStart(cacheFiles,
                                        cacheFileOf(lookups[k].appid),
                                        SubSeq(lookups[k].name, 1, written))
          /\ lookups' = endLookup(k, "fatal: os.WriteFile", "", cacheFiles')
          /\ userConfiguration' = launchWith(lookups[k].appid, FALSE, "")
    /\ UNCHANGED pc
    /\ UNCHANGED notNames

\* findSteamGameName: the name of the reply is written to the open cache file
\* and returned
FindNameRemote ==
    /\ pc = "lookup"
    /\ \E k \in 1..Len(lookups) :
          /\ lookups[k].outcome = "writing"
          /\ cacheFiles' = osWriteAtStart(cacheFiles, cacheFileOf(lookups[k].appid),
                                          lookups[k].name)
          /\ lookups' = endLookup(k, "returned", lookups[k].name, cacheFiles')
          /\ userConfiguration' = launchWith(lookups[k].appid, TRUE, lookups[k].name)
    /\ UNCHANGED pc
    /\ UNCHANGED notNames

\* The cache folder before the first launch: empty, or with a file for 42
\* that can or cannot be read
CacheStates ==
    {EmptyMap}
    \cup {cacheFileOf("42") :> CacheFile("Old", readable) : readable \in BOOLEAN}

InitNames ==
    /\ pc = "lookup"
    /\ userConfiguration = defaultConfiguration
    /\ cacheFiles \in CacheStates
    /\ lookups = << >>
    /\ IdleArgv
    /\ IdleMerge
    /\ IdleCommand
    /\ IdleLaunch
    /\ IdleMigrate
    /\ IdleTail
    /\ IdleDetect

NextNames ==
    \/ FindNameOpenCached
    \/ FindNameRead
    \/ FindNameInCache
    \/ FindNameMiss
    \/ FindNameRemoteFatal
    \/ FindNameParseFatal
    \/ FindNameOpenCache
    \/ FindNameWriteFatal
    \/ FindNameRemote

\* The launches as processes of their own, which can overlap
SpecNames == InitNames /\ [][NextNames]_vars

\* At most one call of findSteamGameName has not ended
OneAtATime == Cardinality({k \in 1..Len(lookups) : ~Ended(lookups[k])}) <= 1

\* The launches one after the other: a launch starts when the one before has
\* ended its lookup
NextNamesInSequence ==
    \/ FindNameOpenCached /\ OneAtATime'
    \/ FindNameRead /\ OneAtATime'
    \/ FindNameInCache /\ OneAtATime'
    \/ FindNameMiss /\ OneAtATime'
    \/ FindNameRemoteFatal /\ OneAtATime'
    \/ FindNameParseFatal /\ OneAtATime'
    \/ FindNameOpenCache /\ OneAtATime'
    \/ FindNameWriteFatal /\ OneAtATime'
    \/ FindNameRemote /\ OneAtATime'

SpecNamesInSequence == InitNames /\ [][NextNamesInSequence]_vars

---------------------------------------------------------------------------
(* Claims about the game-name cache, under SpecNamesInSequence: a sequence *)
(* of lookups, one launch after the other.                                 *)

\* The remote call or the JSON parse of the lookup failed
C15_RemoteOrParseFailed(lookup) ==
    lookup.outcome \in {"fatal: http.Get", "fatal: io.ReadAll",
                        "fatal: json.Unmarshal"}

\* The lookup missed the cache, fetched the name and returned it
C15_Fetched(lookup) == ~lookup.hit /\ lookup.outcome = "returned"

\* The lookups of the same identifier that started after the lookup k ended
C15_LaterLookups(k) ==
    {later \in 1..Len(lookups) :
        k \in lookups[later].after /\ lookups[later].appid = lookups[k].appid}

\* C15: in every sequence of lookups, a lookup that misses the cache makes
\* the remote request and, when it returns, has written the name it returns
\* to the cache file of the identifier; the file holds that name from then
\* on (entries are never expired or overwritten) and every later lookup of
\* the identifier is served from the cache, without a request, and returns
\* the same name; and a lookup whose request or JSON parse failed is fatal,
\* has not opened a cache file and leaves no cache file for the identifier.
C15_CacheServesLaterLookups ==
    \A k \in 1..Len(lookups) :
       LET lookup == lookups[k] IN
       /\ ~lookup.hit => lookup.remote
       /\ C15_Fetched(lookup) =>
             /\ lookup.cachedAfter
             /\ cacheFileOf(lookup.appid) \in DOMAIN cacheFiles
             /\ cacheFiles[cacheFileOf(lookup.appid)].doc = lookup.name
             /\ \A later \in C15_LaterLookups(k) :
                   /\ lookups[later].hit
                   /\ ~lookups[later].remote
                   /\ lookups[later].outcome \in {"reading", "returned"}
                   /\ lookups[later].outcome = "returned" =>
                         lookups[later].name = lookup.name
       /\ C15_RemoteOrParseFailed(lookup) =>
             /\ ~lookup.hit
             /\ ~lookup.opened
             /\ ~lookup.cachedAfter

\* C15 witness: a lookup of 42 failed at the remote call or the parse, the
\* next one fetched "Game" and wrote it, and a third returned "Game" from
\* the cache file without a request
C15_Witness ==
    /\ Len(lookups) >= 3
    /\ lookups[1].appid = "42" /\ C15_RemoteOrParseFailed(lookups[1])
    /\ lookups[2].appid = "42" /\ C15_Fetched(lookups[2])
    /\ lookups[2].name = "Game"
    /\ lookups[3] = Lookup("42", TRUE, FALSE, "returned", "Game", TRUE, FALSE,
                           {1, 2})
    /\ cacheFiles[cacheFileOf("42")].doc = "Game"
    /\ userConfiguration.props["name"] = "Game"

=============================================================================
